---- MODULE Spec2Model ----
(***************************************************************************)
(* vi-mode.js: the modal keystroke interpreter (ViModeController and the   *)
(* resolvers, motions, undo manager, register and selection code it uses)  *)
(* as a state machine over keyboard events.                                *)
(*                                                                         *)
(* Text is a sequence of one-character strings; NL is the newline          *)
(* character.  The buffer is a sequence of lines (EditorBuffer keeps one   *)
(* DOM node per line); extractContent / replaceContent join and split on   *)
(* NL as the code does.  The whole interpreter state is also handled as a  *)
(* record (State) so that every handler is an operator from record to      *)
(* record, translated from the source function of the same name.           *)
(***************************************************************************)
EXTENDS Integers, Sequences, FiniteSets, TLC

VARIABLES
    lines,            \* EditorBuffer: the line texts, in order
    row, col,         \* CursorState.position
    mode,             \* EditorState.mode
    selection,        \* EditorState.selection (NoSelection is null)
    register,         \* ViModeController.register
    undoStack,        \* UndoManager.undoStack (top is the last element)
    redoStack,        \* UndoManager.redoStack
    pendingSnapshot,  \* UndoManager.pendingSnapshot (NoSnapshot is null)
    countBuffer,      \* NormalModeCommandResolver.countBuffer
    pendingOperator,  \* NormalModeCommandResolver.pendingOperator
    visualCountBuffer,\* VisualModeCommandResolver.countBuffer
    lastEvent,        \* history: the event of the last processKeyboardEvent call
    prev,             \* history: the interpreter state before that call
    sessionStart,     \* history: the insert session in progress or just ended
                      \* (NoSession: none): the state before the key that opened
                      \* it and the number of its content-changing keystrokes
    initialContent,   \* history: the content the editor was constructed with
    nKeys             \* history: number of events processed so far

vars == <<lines, row, col, mode, selection, register, undoStack, redoStack,
          pendingSnapshot, countBuffer, pendingOperator, visualCountBuffer,
          lastEvent, prev, sessionStart, initialContent, nKeys>>

----------------------------------------------------------------------------
(* Bounds of the model *)

MaxKeys == 4

----------------------------------------------------------------------------
(* utils.ts and JavaScript primitives *)

NL == "\n"

Min(a, b) == IF a <= b THEN a ELSE b

Max(a, b) == IF a >= b THEN a ELSE b

clampNumber(value, min, max) == Min(Max(value, min), max)

\* String.prototype.slice(a, b) for a, b >= 0: the characters at the 0-based
\* positions [a, b), both ends clamped to the length.
Slice(text, a, b) ==
    LET n == Len(text)
        from == clampNumber(a, 0, n)
        to == clampNumber(b, 0, n)
    IN  SubSeq(text, from + 1, to)

\* String.prototype.slice(a): from position a to the end.
SliceFrom(text, a) == Slice(text, a, Len(text))

\* Array.prototype.join(NL)
RECURSIVE JoinLines(_)
JoinLines(ls) ==
    IF Len(ls) = 0 THEN <<>>
    ELSE IF Len(ls) = 1 THEN ls[1]
    ELSE ls[1] \o <<NL>> \o JoinLines(Tail(ls))

\* String.prototype.split(NL): never yields an empty array.
RECURSIVE SplitLines(_)
SplitLines(text) ==
    IF \A i \in 1..Len(text) : text[i] # NL THEN <<text>>
    ELSE LET i == CHOOSE j \in 1..Len(text) :
                     text[j] = NL /\ \A m \in 1..(j - 1) : text[m] # NL
         IN  <<SubSeq(text, 1, i - 1)>> \o SplitLines(SubSeq(text, i + 1, Len(text)))

endsWithNL(text) == Len(text) > 0 /\ text[Len(text)] = NL

----------------------------------------------------------------------------
(* Keyboard events *)

Ev(k) == [key |-> k, ctrlKey |-> FALSE, altKey |-> FALSE, metaKey |-> FALSE]

CtrlEv(k) == [key |-> k, ctrlKey |-> TRUE, altKey |-> FALSE, metaKey |-> FALSE]

NoEvent == Ev("")

\* makeKey: the active modifiers, in fixed order, then the key name; the code
\* joins the parts with "+", which is kept here as the list of parts.
makeKey(event) ==
    (IF event.ctrlKey THEN <<"Ctrl">> ELSE <<>>)
    \o (IF event.altKey THEN <<"Alt">> ELSE <<>>)
    \o (IF event.metaKey THEN <<"Meta">> ELSE <<>>)
    \o <<event.key>>

\* The key names of more than one character among the events of the model
\* (KeyMapper.resolve tests event.key.length === 1).
NamedKeys == {"Escape", "Backspace", "Delete", "Enter", "Tab",
              "Shift", "Control", "Alt", "Meta"}

isSingleCharacter(key) == key \notin NamedKeys

Digits == {"0", "1", "2", "3", "4", "5", "6", "7", "8", "9"}

isDigit(key) == key \in Digits

\* Faulty variant: Shift is not taken as a modifier.
isPureModifierNoShift(key) == key \in {"Control", "Alt", "Meta"}

isPureModifier(key) == key \in {"Shift", "Control", "Alt", "Meta"}

DigitValue(d) ==
    CASE d = "0" -> 0 [] d = "1" -> 1 [] d = "2" -> 2 [] d = "3" -> 3
      [] d = "4" -> 4 [] d = "5" -> 5 [] d = "6" -> 6 [] d = "7" -> 7
      [] d = "8" -> 8 [] d = "9" -> 9

\* Number(countBuffer) for a non-empty string of decimal digits.
RECURSIVE ParseNumber(_)
ParseNumber(digits) ==
    IF Len(digits) = 0 THEN 0
    ELSE 10 * ParseNumber(SubSeq(digits, 1, Len(digits) - 1))
         + DigitValue(digits[Len(digits)])

\* consumeCountOrOne: the count that is returned (the buffer is cleared by
\* the caller's state update).
consumeCountOrOne(buffer) == IF buffer = <<>> THEN 1 ELSE ParseNumber(buffer)

----------------------------------------------------------------------------
(* EditorBuffer *)

lineCount(s) == Len(s.lines)

getLineText(s, r) == s.lines[r + 1]

getLineLength(s, r) == Len(getLineText(s, r))

extractContent(s) == JoinLines(s.lines)

setLineText(s, r, text) == [s EXCEPT !.lines[r + 1] = text]

insertLineAfter(s, r, text) ==
    [s EXCEPT !.lines = SubSeq(s.lines, 1, r + 1) \o <<text>>
                        \o SubSeq(s.lines, r + 2, Len(s.lines))]

insertLineBefore(s, r, text) ==
    [s EXCEPT !.lines = SubSeq(s.lines, 1, r) \o <<text>>
                        \o SubSeq(s.lines, r + 1, Len(s.lines))]

removeLine(s, r) ==
    [s EXCEPT !.lines = SubSeq(s.lines, 1, r) \o SubSeq(s.lines, r + 2, Len(s.lines))]

replaceContent(s, content) == [s EXCEPT !.lines = SplitLines(content)]

\* for (i = from; i <= to; i += 1) buffer.removeLine(at)
RECURSIVE removeLines(_, _, _)
removeLines(s, at, n) ==
    IF n <= 0 THEN s ELSE removeLines(removeLine(s, at), at, n - 1)

----------------------------------------------------------------------------
(* CursorState *)

getPosition(s) == [row |-> s.row, col |-> s.col]

\* Faulty variant: the column is not clamped to the line length.
clampToBufferRowOnly(s) ==
    LET maxRow == Max(0, lineCount(s) - 1)
        clampedRow == Min(Max(s.row, 0), maxRow)
    IN  [s EXCEPT !.row = clampedRow, !.col = Max(s.col, 0)]

clampToBuffer(s) ==
    LET maxRow == Max(0, lineCount(s) - 1)
        clampedRow == Min(Max(s.row, 0), maxRow)
        lineLength == getLineLength(s, clampedRow)
        clampedCol == Min(Max(s.col, 0), lineLength)
    IN  [s EXCEPT !.row = clampedRow, !.col = clampedCol]

setPosition(s, r, c) == clampToBuffer([s EXCEPT !.row = r, !.col = c])

setFromSnapshot(s, position) ==
    clampToBuffer([s EXCEPT !.row = position.row, !.col = position.col])

moveRight(s) == [s EXCEPT !.col = Min(getLineLength(s, s.row), s.col + 1)]

moveToLineEnd(s) == [s EXCEPT !.col = getLineLength(s, s.row)]

----------------------------------------------------------------------------
(* UndoManager *)

NoSelection == [type |-> "null"]

NoSnapshot == [null |-> TRUE]

createSnapshot(s) ==
    [content |-> extractContent(s),
     cursor |-> getPosition(s),
     mode |-> s.mode,
     selection |-> s.selection]

\* Faulty variant: the snapshot is pushed whether or not the content changed.
recordChangeAlways(s, previousSnapshot) ==
    [s EXCEPT !.undoStack = Append(s.undoStack, previousSnapshot),
              !.redoStack = <<>>]

\* Faulty variant: a recorded change keeps the redo stack.
recordChangeKeepsRedo(s, previousSnapshot) ==
    IF previousSnapshot.content # extractContent(s)
    THEN [s EXCEPT !.undoStack = Append(s.undoStack, previousSnapshot)]
    ELSE s

recordChange(s, previousSnapshot) ==
    IF previousSnapshot.content # extractContent(s)
    THEN [s EXCEPT !.undoStack = Append(s.undoStack, previousSnapshot),
                   !.redoStack = <<>>]
    ELSE s

hasPendingCompound(s) == s.pendingSnapshot # NoSnapshot

beginCompound(s) ==
    IF ~hasPendingCompound(s)
    THEN [s EXCEPT !.pendingSnapshot = createSnapshot(s)]
    ELSE s

\* Faulty variant: the pending snapshot is recorded whether or not the
\* content changed.
commitCompoundAlways(s) ==
    IF ~hasPendingCompound(s) THEN s
    ELSE [s EXCEPT !.undoStack = Append(s.undoStack, s.pendingSnapshot),
                   !.redoStack = <<>>,
                   !.pendingSnapshot = NoSnapshot]

commitCompoundIfChanged(s) ==
    IF ~hasPendingCompound(s) THEN s
    ELSE [recordChange(s, s.pendingSnapshot) EXCEPT !.pendingSnapshot = NoSnapshot]

\* Faulty variant: applying a snapshot empties the register.
applySnapshotClearsRegister(s, snapshot) ==
    setFromSnapshot(
        [replaceContent(s, snapshot.content) EXCEPT
            !.mode = snapshot.mode, !.selection = snapshot.selection,
            !.register = <<>>],
        snapshot.cursor)

\* Faulty variant: the snapshot's cursor is not restored.
applySnapshotKeepsCursor(s, snapshot) ==
    clampToBuffer([replaceContent(s, snapshot.content) EXCEPT
                      !.mode = snapshot.mode, !.selection = snapshot.selection])

applySnapshot(s, snapshot) ==
    setFromSnapshot(
        [replaceContent(s, snapshot.content) EXCEPT
            !.mode = snapshot.mode, !.selection = snapshot.selection],
        snapshot.cursor)

\* Faulty variant: the popped snapshot, not the current state, goes to the
\* redo stack.
undoPushesPopped(s) ==
    IF s.undoStack = <<>> THEN [ok |-> FALSE, s |-> s]
    ELSE LET snapshot == s.undoStack[Len(s.undoStack)]
             popped == [s EXCEPT !.undoStack = SubSeq(s.undoStack, 1, Len(s.undoStack) - 1)]
             pushed == [popped EXCEPT !.redoStack = Append(s.redoStack, snapshot)]
         IN  [ok |-> TRUE, s |-> applySnapshot(pushed, snapshot)]

\* Faulty variant: the current state is pushed on the redo stack before the
\* undo stack is found empty.
undoPushesFirst(s) ==
    LET pushed == [s EXCEPT !.redoStack = Append(s.redoStack, createSnapshot(s))]
    IN  IF s.undoStack = <<>> THEN [ok |-> FALSE, s |-> pushed]
        ELSE [ok |-> TRUE,
              s |-> applySnapshot(
                        [pushed EXCEPT !.undoStack =
                            SubSeq(s.undoStack, 1, Len(s.undoStack) - 1)],
                        s.undoStack[Len(s.undoStack)])]

\* undo and redo return [ok, s]: the boolean result and the state afterwards.
undo(s) ==
    IF s.undoStack = <<>> THEN [ok |-> FALSE, s |-> s]
    ELSE LET snapshot == s.undoStack[Len(s.undoStack)]
             popped == [s EXCEPT !.undoStack = SubSeq(s.undoStack, 1, Len(s.undoStack) - 1)]
             pushed == [popped EXCEPT !.redoStack = Append(s.redoStack, createSnapshot(s))]
         IN  [ok |-> TRUE, s |-> applySnapshot(pushed, snapshot)]

redo(s) ==
    IF s.redoStack = <<>> THEN [ok |-> FALSE, s |-> s]
    ELSE LET snapshot == s.redoStack[Len(s.redoStack)]
             popped == [s EXCEPT !.redoStack = SubSeq(s.redoStack, 1, Len(s.redoStack) - 1)]
             pushed == [popped EXCEPT !.undoStack = Append(s.undoStack, createSnapshot(s))]
         IN  [ok |-> TRUE, s |-> applySnapshot(pushed, snapshot)]

\* Faulty variant: the count is ignored, one undo step is made.
undoLoopOnce(s, n) == IF n <= 0 THEN s ELSE undo(s).s

\* for (i = 0; i < normalizedCount; i += 1) if (!undoManager.undo(state)) break;
RECURSIVE undoLoop(_, _)
undoLoop(s, n) ==
    LET continue(r) == IF r.ok THEN undoLoop(r.s, n - 1) ELSE r.s
    IN  IF n <= 0 THEN s ELSE continue(undo(s))

RECURSIVE redoLoop(_, _)
redoLoop(s, n) ==
    LET continue(r) == IF r.ok THEN redoLoop(r.s, n - 1) ELSE r.s
    IN  IF n <= 0 THEN s ELSE continue(redo(s))

----------------------------------------------------------------------------
(* motions.ts *)

MotionKeys == {"h", "l", "j", "k", "0", "$"}

\* Faulty variant: l stops on the last character instead of the line length.
motionMoveLStopsOnLastChar(s, key, count) ==
    CASE key = "h" -> setPosition(s, s.row, Max(0, s.col - Max(1, count)))
      [] key = "l" ->
            setPosition(s, s.row,
                        Min(Max(0, getLineLength(s, s.row) - 1), s.col + Max(1, count)))
      [] key = "j" ->
            setPosition(s, clampNumber(s.row + Max(1, count), 0, lineCount(s) - 1), s.col)
      [] key = "k" ->
            setPosition(s, clampNumber(s.row - Max(1, count), 0, lineCount(s) - 1), s.col)
      [] key = "0" -> setPosition(s, s.row, 0)
      [] key = "$" ->
            LET lineLength == getLineLength(s, s.row)
            IN  setPosition(s, s.row, IF lineLength = 0 THEN 0 ELSE lineLength - 1)

\* Faulty variant: k moves one row whatever the count.
motionMoveKOneRow(s, key, count) ==
    CASE key = "h" -> setPosition(s, s.row, Max(0, s.col - Max(1, count)))
      [] key = "l" ->
            setPosition(s, s.row, Min(getLineLength(s, s.row), s.col + Max(1, count)))
      [] key = "j" ->
            setPosition(s, clampNumber(s.row + Max(1, count), 0, lineCount(s) - 1), s.col)
      [] key = "k" ->
            setPosition(s, clampNumber(s.row - 1, 0, lineCount(s) - 1), s.col)
      [] key = "0" -> setPosition(s, s.row, 0)
      [] key = "$" ->
            LET lineLength == getLineLength(s, s.row)
            IN  setPosition(s, s.row, IF lineLength = 0 THEN 0 ELSE lineLength - 1)

motionMove(s, key, count) ==
    CASE key = "h" -> setPosition(s, s.row, Max(0, s.col - Max(1, count)))
      [] key = "l" ->
            setPosition(s, s.row, Min(getLineLength(s, s.row), s.col + Max(1, count)))
      [] key = "j" ->
            setPosition(s, clampNumber(s.row + Max(1, count), 0, lineCount(s) - 1), s.col)
      [] key = "k" ->
            setPosition(s, clampNumber(s.row - Max(1, count), 0, lineCount(s) - 1), s.col)
      [] key = "0" -> setPosition(s, s.row, 0)
      [] key = "$" ->
            LET lineLength == getLineLength(s, s.row)
            IN  setPosition(s, s.row, IF lineLength = 0 THEN 0 ELSE lineLength - 1)

\* Faulty variant: j and k span count rows beyond the cursor row.
motionToRangeOneMoreRow(s, key, count) ==
    CASE key = "h" ->
            [type |-> "character", row |-> s.row,
             startCol |-> Max(0, s.col - Max(1, count)), endCol |-> s.col]
      [] key = "l" ->
            [type |-> "character", row |-> s.row, startCol |-> s.col,
             endCol |-> Min(getLineLength(s, s.row), s.col + Max(1, count))]
      [] key = "j" ->
            [type |-> "line", startRow |-> s.row,
             endRow |-> clampNumber(s.row + Max(1, count), 0, lineCount(s) - 1)]
      [] key = "k" ->
            [type |-> "line",
             startRow |-> clampNumber(s.row - Max(1, count), 0, s.row),
             endRow |-> s.row]
      [] key = "0" ->
            [type |-> "character", row |-> s.row, startCol |-> 0, endCol |-> s.col]
      [] key = "$" ->
            LET lineLength == getLineLength(s, s.row)
                safeCol == IF lineLength = 0 THEN 0
                           ELSE Min(s.col, Max(0, lineLength - 1))
            IN  [type |-> "character", row |-> s.row,
                 startCol |-> safeCol, endCol |-> lineLength]

\* Faulty variant: the range of $ ends where the move of $ lands.
motionToRangeDollarAsMove(s, key, count) ==
    CASE key = "h" ->
            [type |-> "character", row |-> s.row,
             startCol |-> Max(0, s.col - Max(1, count)), endCol |-> s.col]
      [] key = "l" ->
            [type |-> "character", row |-> s.row, startCol |-> s.col,
             endCol |-> Min(getLineLength(s, s.row), s.col + Max(1, count))]
      [] key = "j" ->
            [type |-> "line", startRow |-> s.row,
             endRow |-> clampNumber(s.row + Max(1, count) - 1, 0, lineCount(s) - 1)]
      [] key = "k" ->
            [type |-> "line",
             startRow |-> clampNumber(s.row - (Max(1, count) - 1), 0, s.row),
             endRow |-> s.row]
      [] key = "0" ->
            [type |-> "character", row |-> s.row, startCol |-> 0, endCol |-> s.col]
      [] key = "$" ->
            LET lineLength == getLineLength(s, s.row)
                safeCol == IF lineLength = 0 THEN 0
                           ELSE Min(s.col, Max(0, lineLength - 1))
            IN  [type |-> "character", row |-> s.row,
                 startCol |-> safeCol, endCol |-> Max(0, lineLength - 1)]

motionToRange(s, key, count) ==
    CASE key = "h" ->
            [type |-> "character", row |-> s.row,
             startCol |-> Max(0, s.col - Max(1, count)), endCol |-> s.col]
      [] key = "l" ->
            [type |-> "character", row |-> s.row, startCol |-> s.col,
             endCol |-> Min(getLineLength(s, s.row), s.col + Max(1, count))]
      [] key = "j" ->
            [type |-> "line", startRow |-> s.row,
             endRow |-> clampNumber(s.row + Max(1, count) - 1, 0, lineCount(s) - 1)]
      [] key = "k" ->
            [type |-> "line",
             startRow |-> clampNumber(s.row - (Max(1, count) - 1), 0, s.row),
             endRow |-> s.row]
      [] key = "0" ->
            [type |-> "character", row |-> s.row, startCol |-> 0, endCol |-> s.col]
      [] key = "$" ->
            LET lineLength == getLineLength(s, s.row)
                safeCol == IF lineLength = 0 THEN 0
                           ELSE Min(s.col, Max(0, lineLength - 1))
            IN  [type |-> "character", row |-> s.row,
                 startCol |-> safeCol, endCol |-> lineLength]

----------------------------------------------------------------------------
(* NormalModeCommandResolver: the operator engine *)

setRegister(s, text) == [s EXCEPT !.register = text]

\* lines.join(NL) + NL for the rows from..to
linesText(s, from, to) == JoinLines(SubSeq(s.lines, from + 1, to + 1)) \o <<NL>>

\* if (buffer.lineCount() === 0) buffer.replaceContent("")
refillIfEmpty(s) == IF lineCount(s) = 0 THEN replaceContent(s, <<>>) ELSE s

\* Faulty variant: the cursor lands on column 0 of the target row.
deleteLineRangeColumnZero(s, startRow, endRow) ==
    LET normalizedStart == Max(0, Min(startRow, endRow))
        normalizedEnd == clampNumber(Max(startRow, endRow), normalizedStart,
                                     lineCount(s) - 1)
        snap(removed) ==
            setPosition(removed,
                        clampNumber(normalizedStart, 0, lineCount(removed) - 1), 0)
    IN  snap(refillIfEmpty(
            removeLines(setRegister(s, linesText(s, normalizedStart, normalizedEnd)),
                        normalizedStart, normalizedEnd - normalizedStart + 1)))

\* Faulty variant: the last row of the range is not removed.
deleteLineRangeKeepsLast(s, startRow, endRow) ==
    LET normalizedStart == Max(0, Min(startRow, endRow))
        normalizedEnd == clampNumber(Max(startRow, endRow), normalizedStart,
                                     lineCount(s) - 1)
        place(removed, targetRow) ==
            setPosition(removed, targetRow,
                        Min(s.col, getLineLength(removed, targetRow)))
        snap(removed) ==
            place(removed, clampNumber(normalizedStart, 0, lineCount(removed) - 1))
    IN  snap(refillIfEmpty(
            removeLines(setRegister(s, linesText(s, normalizedStart, normalizedEnd)),
                        normalizedStart, normalizedEnd - normalizedStart)))

deleteLineRange(s, startRow, endRow) ==
    LET normalizedStart == Max(0, Min(startRow, endRow))
        normalizedEnd == clampNumber(Max(startRow, endRow), normalizedStart,
                                     lineCount(s) - 1)
        place(removed, targetRow) ==
            setPosition(removed, targetRow,
                        Min(s.col, getLineLength(removed, targetRow)))
        snap(removed) ==
            place(removed, clampNumber(normalizedStart, 0, lineCount(removed) - 1))
    IN  snap(refillIfEmpty(
            removeLines(setRegister(s, linesText(s, normalizedStart, normalizedEnd)),
                        normalizedStart, normalizedEnd - normalizedStart + 1)))

yankLineRange(s, startRow, endRow) ==
    LET normalizedStart == Max(0, Min(startRow, endRow))
        normalizedEnd == clampNumber(Max(startRow, endRow), normalizedStart,
                                     lineCount(s) - 1)
    IN  setRegister(s, linesText(s, normalizedStart, normalizedEnd))

\* Faulty variant: an empty range is not skipped.
deleteCharacterRangeNoEmptyCheck(s, r, startCol, endCol) ==
    LET lineText == getLineText(s, r)
        clampedStart == clampNumber(startCol, 0, Len(lineText))
        clampedEnd == clampNumber(endCol, clampedStart, Len(lineText))
        updated == Slice(lineText, 0, clampedStart) \o SliceFrom(lineText, clampedEnd)
    IN  setPosition(
            setLineText(setRegister(s, Slice(lineText, clampedStart, clampedEnd)),
                        r, updated),
            r, clampedStart)

\* Faulty variant: the end column is taken as inclusive.
deleteCharacterRangeInclusive(s, r, startCol, endCol) ==
    LET lineText == getLineText(s, r)
        clampedStart == clampNumber(startCol, 0, Len(lineText))
        clampedEnd == clampNumber(endCol + 1, clampedStart, Len(lineText))
        updated == Slice(lineText, 0, clampedStart) \o SliceFrom(lineText, clampedEnd)
    IN  IF clampedStart = clampedEnd THEN s
        ELSE setPosition(
                 setLineText(setRegister(s, Slice(lineText, clampedStart, clampedEnd)),
                             r, updated),
                 r, clampedStart)

deleteCharacterRange(s, r, startCol, endCol) ==
    LET lineText == getLineText(s, r)
        clampedStart == clampNumber(startCol, 0, Len(lineText))
        clampedEnd == clampNumber(endCol, clampedStart, Len(lineText))
        updated == Slice(lineText, 0, clampedStart) \o SliceFrom(lineText, clampedEnd)
    IN  IF clampedStart = clampedEnd THEN s
        ELSE setPosition(
                 setLineText(setRegister(s, Slice(lineText, clampedStart, clampedEnd)),
                             r, updated),
                 r, clampedStart)

yankCharacterRange(s, r, startCol, endCol) ==
    LET lineText == getLineText(s, r)
        clampedStart == clampNumber(startCol, 0, Len(lineText))
        clampedEnd == clampNumber(endCol, clampedStart, Len(lineText))
    IN  IF clampedStart = clampedEnd THEN s
        ELSE setRegister(s, Slice(lineText, clampedStart, clampedEnd))

----------------------------------------------------------------------------
(* ViModeController: selection geometry, register and paste *)

\* Faulty variant: the head reported is the stored anchor.
getSelectionHeadIsAnchor(s) ==
    IF s.selection = NoSelection THEN [type |-> "null"]
    ELSE [type |-> s.selection.type,
          anchor |-> s.selection.anchor,
          head |-> s.selection.anchor]

getSelection(s) ==
    IF s.selection = NoSelection THEN [type |-> "null"]
    ELSE [type |-> s.selection.type,
          anchor |-> s.selection.anchor,
          head |-> getPosition(s)]

\* Faulty variant: on one row the anchor is taken as the start whatever its
\* column.
getSelectionRangeAnchorFirstOnRow(s) ==
    IF s.selection = NoSelection THEN [type |-> "null"]
    ELSE LET anchor == s.selection.anchor
             head == getPosition(s)
         IN  IF s.selection.type = "line"
             THEN [type |-> "line",
                   startRow |-> Min(anchor.row, head.row),
                   endRow |-> Max(anchor.row, head.row)]
             ELSE LET anchorIsTop == anchor.row <= head.row
                      start == IF anchorIsTop THEN anchor ELSE head
                      end == IF anchorIsTop THEN head ELSE anchor
                  IN  [type |-> "character",
                       startRow |-> start.row, startCol |-> start.col,
                       endRow |-> end.row, endCol |-> end.col + 1]

\* Faulty variant: the character range ends at the later endpoint, not past it.
getSelectionRangeEndAtHead(s) ==
    IF s.selection = NoSelection THEN [type |-> "null"]
    ELSE LET anchor == s.selection.anchor
             head == getPosition(s)
         IN  IF s.selection.type = "line"
             THEN [type |-> "line",
                   startRow |-> Min(anchor.row, head.row),
                   endRow |-> Max(anchor.row, head.row)]
             ELSE LET anchorIsTop ==
                          \/ anchor.row < head.row
                          \/ (anchor.row = head.row /\ anchor.col <= head.col)
                      start == IF anchorIsTop THEN anchor ELSE head
                      end == IF anchorIsTop THEN head ELSE anchor
                  IN  [type |-> "character",
                       startRow |-> start.row, startCol |-> start.col,
                       endRow |-> end.row, endCol |-> end.col]

getSelectionRange(s) ==
    IF s.selection = NoSelection THEN [type |-> "null"]
    ELSE LET anchor == s.selection.anchor
             head == getPosition(s)
         IN  IF s.selection.type = "line"
             THEN [type |-> "line",
                   startRow |-> Min(anchor.row, head.row),
                   endRow |-> Max(anchor.row, head.row)]
             ELSE LET anchorIsTop ==
                          \/ anchor.row < head.row
                          \/ (anchor.row = head.row /\ anchor.col <= head.col)
                      start == IF anchorIsTop THEN anchor ELSE head
                      end == IF anchorIsTop THEN head ELSE anchor
                  IN  [type |-> "character",
                       startRow |-> start.row, startCol |-> start.col,
                       endRow |-> end.row, endCol |-> end.col + 1]

copySelectionToRegister(s) ==
    LET copy(range) ==
        CASE range.type = "null" -> s
          [] range.type = "line" ->
                [s EXCEPT !.register = linesText(s, range.startRow, range.endRow)]
          [] range.type = "character" /\ range.startRow = range.endRow ->
                LET line == getLineText(s, range.startRow)
                    endCol == Min(Len(line), range.endCol)
                IN  [s EXCEPT !.register = Slice(line, range.startCol, endCol)]
          [] OTHER ->
                LET startLine == getLineText(s, range.startRow)
                    endLine == getLineText(s, range.endRow)
                    parts == <<SliceFrom(startLine, range.startCol)>>
                             \o SubSeq(s.lines, range.startRow + 2, range.endRow)
                             \o <<Slice(endLine, 0, Min(Len(endLine), range.endCol))>>
                IN  [s EXCEPT !.register = JoinLines(parts)]
    IN  copy(getSelectionRange(s))

deleteSelectionInBuffer(s, range) ==
    CASE range.type = "line" ->
            LET start == Max(0, range.startRow)
                end == clampNumber(range.endRow, start, lineCount(s) - 1)
                place(removed) ==
                    setPosition(removed, Min(start, lineCount(removed) - 1), 0)
            IN  place(refillIfEmpty(removeLines(s, start, end - start + 1)))
      [] range.type = "character" /\ range.startRow = range.endRow ->
            LET line == getLineText(s, range.startRow)
                newText == Slice(line, 0, range.startCol)
                           \o SliceFrom(line, Min(Len(line), range.endCol))
            IN  setPosition(setLineText(s, range.startRow, newText),
                            range.startRow, range.startCol)
      [] OTHER ->
            LET startLine == getLineText(s, range.startRow)
                endLine == getLineText(s, range.endRow)
                tail == SliceFrom(endLine, Min(Len(endLine), range.endCol))
                merged == setLineText(s, range.startRow,
                                      Slice(startLine, 0, range.startCol) \o tail)
                removed == removeLines(merged, range.startRow + 1,
                                       range.endRow - range.startRow)
            IN  setPosition(removed, range.startRow, range.startCol)

\* for (const line of lines) { insertLineAfter(current, line); current += 1 }
RECURSIVE insertLinesAfter(_, _, _)
insertLinesAfter(s, current, ls) ==
    IF Len(ls) = 0 THEN s
    ELSE insertLinesAfter(insertLineAfter(s, current, Head(ls)), current + 1, Tail(ls))

\* Faulty variant: every line is inserted at the same row, which reverses them.
RECURSIVE insertLinesBeforeReversed(_, _, _)
insertLinesBeforeReversed(s, at, ls) ==
    IF Len(ls) = 0 THEN s
    ELSE insertLinesBeforeReversed(insertLineBefore(s, at, Head(ls)), at, Tail(ls))

\* for (i = 0; i < lines.length; i += 1) insertLineBefore(insertRow + i, lines[i])
RECURSIVE insertLinesBefore(_, _, _)
insertLinesBefore(s, at, ls) ==
    IF Len(ls) = 0 THEN s
    ELSE insertLinesBefore(insertLineBefore(s, at, Head(ls)), at + 1, Tail(ls))

\* Faulty variant: the cursor is put after the last inserted character.
insertTextAtPositionCursorAfter(s, r, c, text) ==
    LET ls == SplitLines(text)
        n == Len(ls)
        original == getLineText(s, r)
        clampedCol == clampNumber(c, 0, Len(original))
    IN  IF n = 1
        THEN setPosition(
                 setLineText(s, r, Slice(original, 0, clampedCol) \o text
                                   \o SliceFrom(original, clampedCol)),
                 r, clampedCol + Len(text))
        ELSE LET firstLine == Slice(original, 0, clampedCol) \o ls[1]
                 lastLine == ls[n] \o SliceFrom(original, clampedCol)
                 first == setLineText(s, r, firstLine)
                 middle == insertLinesAfter(first, r, SubSeq(ls, 2, n - 1))
                 last == insertLineAfter(middle, r + n - 2, lastLine)
             IN  setPosition(last, r + n - 1, Len(ls[n]))

insertTextAtPosition(s, r, c, text) ==
    LET ls == SplitLines(text)
        n == Len(ls)
        original == getLineText(s, r)
        clampedCol == clampNumber(c, 0, Len(original))
    IN  IF n = 1
        THEN setPosition(
                 setLineText(s, r, Slice(original, 0, clampedCol) \o text
                                   \o SliceFrom(original, clampedCol)),
                 r, Max(0, clampedCol + Len(text) - 1))
        ELSE LET firstLine == Slice(original, 0, clampedCol) \o ls[1]
                 lastLine == ls[n] \o SliceFrom(original, clampedCol)
                 first == setLineText(s, r, firstLine)
                 middle == insertLinesAfter(first, r, SubSeq(ls, 2, n - 1))
                 last == insertLineAfter(middle, r + n - 2, lastLine)
             IN  setPosition(last, r + n - 1, Max(0, Len(ls[n]) - 1))

\* Faulty variant: after a linewise paste the cursor is on the first inserted
\* row.
pasteFromRegisterCursorFirst(s, before) ==
    IF s.register = <<>> THEN s
    ELSE LET text == s.register
         IN  IF endsWithNL(text)
             THEN LET ls == SplitLines(Slice(text, 0, Len(text) - 1))
                      insertRow == IF before THEN s.row ELSE s.row + 1
                  IN  IF insertRow >= lineCount(s)
                      THEN setPosition(insertLinesAfter(s, lineCount(s) - 1, ls),
                                       lineCount(s), 0)
                      ELSE setPosition(insertLinesBefore(s, insertRow, ls),
                                       insertRow, 0)
             ELSE insertTextAtPosition(s, s.row, IF before THEN s.col ELSE s.col + 1,
                                       text)

\* Faulty variant: a charwise P splices after the cursor column like p.
pasteFromRegisterCharAfter(s, before) ==
    IF s.register = <<>> THEN s
    ELSE LET text == s.register
         IN  IF endsWithNL(text)
             THEN LET ls == SplitLines(Slice(text, 0, Len(text) - 1))
                      insertRow == IF before THEN s.row ELSE s.row + 1
                  IN  IF insertRow >= lineCount(s)
                      THEN setPosition(insertLinesAfter(s, lineCount(s) - 1, ls),
                                       lineCount(s) - 1 + Len(ls), 0)
                      ELSE setPosition(insertLinesBefore(s, insertRow, ls),
                                       insertRow + Len(ls) - 1, 0)
             ELSE insertTextAtPosition(s, s.row, s.col + 1, text)

pasteFromRegister(s, before) ==
    IF s.register = <<>> THEN s
    ELSE LET text == s.register
         IN  IF endsWithNL(text)
             THEN LET ls == SplitLines(Slice(text, 0, Len(text) - 1))
                      insertRow == IF before THEN s.row ELSE s.row + 1
                  IN  IF insertRow >= lineCount(s)
                      THEN setPosition(insertLinesAfter(s, lineCount(s) - 1, ls),
                                       lineCount(s) - 1 + Len(ls), 0)
                      ELSE setPosition(insertLinesBefore(s, insertRow, ls),
                                       insertRow + Len(ls) - 1, 0)
             ELSE insertTextAtPosition(s, s.row, IF before THEN s.col ELSE s.col + 1,
                                       text)

----------------------------------------------------------------------------
(* normal-keymap.ts, default-key-mapper.ts, insert-keymap.ts: the commands *)

NormalCommandKeys == {"i", "a", "A", "o", "O", "x", "D", "v", "V", "p", "P"}

\* Faulty variant: x at the end of a line does not join the next row.
normalCommandXNoJoin(s, key) ==
    CASE key = "i" -> [s EXCEPT !.mode = "insert"]
      [] key = "a" -> [moveRight(s) EXCEPT !.mode = "insert"]
      [] key = "A" -> [moveToLineEnd(s) EXCEPT !.mode = "insert"]
      [] key = "o" ->
            [setPosition(insertLineAfter(s, s.row, <<>>), s.row + 1, 0)
                EXCEPT !.mode = "insert"]
      [] key = "O" ->
            [setPosition(insertLineBefore(s, s.row, <<>>), s.row, 0)
                EXCEPT !.mode = "insert"]
      [] key = "x" ->
            LET text == getLineText(s, s.row)
            IN  IF s.col < Len(text)
                THEN setLineText(s, s.row,
                                 Slice(text, 0, s.col) \o SliceFrom(text, s.col + 1))
                ELSE s
      [] key = "D" ->
            setLineText(s, s.row, Slice(getLineText(s, s.row), 0, s.col))
      [] key = "v" ->
            [s EXCEPT !.selection = [type |-> "character", anchor |-> getPosition(s)],
                      !.mode = "visual-character"]
      [] key = "V" ->
            [s EXCEPT !.selection = [type |-> "line", anchor |-> getPosition(s)],
                      !.mode = "visual-line"]
      [] key = "p" -> [pasteFromRegister(s, FALSE) EXCEPT !.mode = "normal"]
      [] key = "P" -> [pasteFromRegister(s, TRUE) EXCEPT !.mode = "normal"]

\* Faulty variant: D keeps the character under the cursor.
normalCommandDKeepsCursorChar(s, key) ==
    CASE key = "i" -> [s EXCEPT !.mode = "insert"]
      [] key = "a" -> [moveRight(s) EXCEPT !.mode = "insert"]
      [] key = "A" -> [moveToLineEnd(s) EXCEPT !.mode = "insert"]
      [] key = "o" ->
            [setPosition(insertLineAfter(s, s.row, <<>>), s.row + 1, 0)
                EXCEPT !.mode = "insert"]
      [] key = "O" ->
            [setPosition(insertLineBefore(s, s.row, <<>>), s.row, 0)
                EXCEPT !.mode = "insert"]
      [] key = "x" ->
            LET text == getLineText(s, s.row)
            IN  IF s.col < Len(text)
                THEN setLineText(s, s.row,
                                 Slice(text, 0, s.col) \o SliceFrom(text, s.col + 1))
                ELSE IF s.col = Len(text) /\ s.row < lineCount(s) - 1
                THEN removeLine(
                         setLineText(s, s.row, text \o getLineText(s, s.row + 1)),
                         s.row + 1)
                ELSE s
      [] key = "D" ->
            setLineText(s, s.row, Slice(getLineText(s, s.row), 0, s.col + 1))
      [] key = "v" ->
            [s EXCEPT !.selection = [type |-> "character", anchor |-> getPosition(s)],
                      !.mode = "visual-character"]
      [] key = "V" ->
            [s EXCEPT !.selection = [type |-> "line", anchor |-> getPosition(s)],
                      !.mode = "visual-line"]
      [] key = "p" -> [pasteFromRegister(s, FALSE) EXCEPT !.mode = "normal"]
      [] key = "P" -> [pasteFromRegister(s, TRUE) EXCEPT !.mode = "normal"]

normalCommand(s, key) ==
    CASE key = "i" -> [s EXCEPT !.mode = "insert"]
      [] key = "a" -> [moveRight(s) EXCEPT !.mode = "insert"]
      [] key = "A" -> [moveToLineEnd(s) EXCEPT !.mode = "insert"]
      [] key = "o" ->
            [setPosition(insertLineAfter(s, s.row, <<>>), s.row + 1, 0)
                EXCEPT !.mode = "insert"]
      [] key = "O" ->
            [setPosition(insertLineBefore(s, s.row, <<>>), s.row, 0)
                EXCEPT !.mode = "insert"]
      [] key = "x" ->
            LET text == getLineText(s, s.row)
            IN  IF s.col < Len(text)
                THEN setLineText(s, s.row,
                                 Slice(text, 0, s.col) \o SliceFrom(text, s.col + 1))
                ELSE IF s.col = Len(text) /\ s.row < lineCount(s) - 1
                THEN removeLine(
                         setLineText(s, s.row, text \o getLineText(s, s.row + 1)),
                         s.row + 1)
                ELSE s
      [] key = "D" ->
            setLineText(s, s.row, Slice(getLineText(s, s.row), 0, s.col))
      [] key = "v" ->
            [s EXCEPT !.selection = [type |-> "character", anchor |-> getPosition(s)],
                      !.mode = "visual-character"]
      [] key = "V" ->
            [s EXCEPT !.selection = [type |-> "line", anchor |-> getPosition(s)],
                      !.mode = "visual-line"]
      [] key = "p" -> [pasteFromRegister(s, FALSE) EXCEPT !.mode = "normal"]
      [] key = "P" -> [pasteFromRegister(s, TRUE) EXCEPT !.mode = "normal"]

\* Faulty variant: leaving visual mode puts the cursor back on the anchor.
exitVisualCommandToAnchor(s) ==
    [s EXCEPT !.selection = NoSelection, !.mode = "normal",
              !.row = s.selection.anchor.row, !.col = s.selection.anchor.col]

exitVisualCommand(s) == [s EXCEPT !.selection = NoSelection, !.mode = "normal"]

\* Faulty variant: the selection survives the yank.
yankVisualCommandKeepsSelection(s) ==
    [copySelectionToRegister(s) EXCEPT !.mode = "normal"]

yankVisualCommand(s) ==
    [copySelectionToRegister(s) EXCEPT !.selection = NoSelection, !.mode = "normal"]

deleteVisualCommand(s) ==
    LET delete(range) ==
            IF range.type # "null"
            THEN deleteSelectionInBuffer(copySelectionToRegister(s), range)
            ELSE s
    IN  [delete(getSelectionRange(s)) EXCEPT !.selection = NoSelection,
                                             !.mode = "normal"]

InsertKeymapKeys == {<<"Escape">>, <<"Backspace">>, <<"Delete">>, <<"Enter">>, <<"Tab">>}

insertKeymapCommand(s, key) ==
    LET text == getLineText(s, s.row)
    IN  CASE key = "Escape" ->
                [clampToBuffer(s) EXCEPT !.selection = NoSelection, !.mode = "normal"]
          [] key = "Backspace" ->
                IF s.col > 0
                THEN setPosition(
                         setLineText(s, s.row,
                             Slice(text, 0, s.col - 1) \o SliceFrom(text, s.col)),
                         s.row, s.col - 1)
                ELSE IF s.col = 0 /\ s.row > 0
                THEN LET prevLineText == getLineText(s, s.row - 1)
                     IN  setPosition(
                             removeLine(setLineText(s, s.row - 1, prevLineText \o text),
                                        s.row),
                             s.row - 1, Len(prevLineText))
                ELSE s
          [] key = "Delete" ->
                setLineText(s, s.row, Slice(text, 0, s.col) \o SliceFrom(text, s.col + 1))
          [] key = "Enter" ->
                setPosition(
                    insertLineAfter(setLineText(s, s.row, Slice(text, 0, s.col)),
                                    s.row, SliceFrom(text, s.col)),
                    s.row + 1, 0)
          [] key = "Tab" ->
                setPosition(
                    setLineText(s, s.row,
                        Slice(text, 0, s.col) \o <<" ", " ", " ", " ">>
                        \o SliceFrom(text, s.col)),
                    s.row, s.col + 4)

insertTextCommand(s, event) ==
    LET text == getLineText(s, s.row)
    IN  setPosition(
            setLineText(s, s.row,
                Slice(text, 0, s.col) \o <<event.key>> \o SliceFrom(text, s.col)),
            s.row, s.col + 1)

----------------------------------------------------------------------------
(* command-resolvers.ts: a resolved command is a record [kind, key, count];    *)
(* NoCommand is the null result.  resolve returns the resolver's state update *)
(* (in s) together with the command.                                          *)

NoCommand == [kind |-> "null", key |-> "", count |-> 0]

Command(kind, key, count) == [kind |-> kind, key |-> key, count |-> count]

Resolved(s, command) == [s |-> s, command |-> command]

\* VisualModeCommandResolver.shouldTreatZeroAsMotion
visualShouldTreatZeroAsMotion(s, key) == key = "0" /\ s.visualCountBuffer = <<>>

\* VisualModeCommandResolver.resolveMotionKey
visualResolveMotionKey(s, key) ==
    IF key \notin MotionKeys THEN Resolved(s, NoCommand)
    ELSE Resolved([s EXCEPT !.visualCountBuffer = <<>>],
                  Command("move", key, consumeCountOrOne(s.visualCountBuffer)))

\* VisualModeCommandResolver.resolve
visualResolve(s, event) ==
    LET key == makeKey(event)
        cleared == [s EXCEPT !.visualCountBuffer = <<>>]
    IN  IF isPureModifier(event.key) THEN Resolved(s, NoCommand)
        ELSE IF isDigit(event.key)
        THEN IF visualShouldTreatZeroAsMotion(s, event.key)
             THEN visualResolveMotionKey(s, "0")
             ELSE Resolved([s EXCEPT !.visualCountBuffer = Append(@, event.key)],
                           NoCommand)
        ELSE IF key = <<"Escape">> THEN Resolved(cleared, Command("exitVisual", "", 0))
        ELSE IF key = <<"y">> THEN Resolved(cleared, Command("yankVisual", "", 0))
        ELSE IF key = <<"d">> THEN Resolved(cleared, Command("deleteVisual", "", 0))
        ELSE IF Len(key) = 1 /\ key[1] \in MotionKeys
        THEN visualResolveMotionKey(s, key[1])
        ELSE Resolved(cleared, NoCommand)

\* Faulty variant: the count survives the reset.
resetPendingKeepsCount(s) == [s EXCEPT !.pendingOperator = "null"]

\* Faulty variant: the pending operator survives the reset.
resetPendingKeepsOperator(s) == [s EXCEPT !.countBuffer = <<>>]

resetPending(s) == [s EXCEPT !.countBuffer = <<>>, !.pendingOperator = "null"]

\* Faulty variant: 0 is always the line-start motion.
shouldTreatZeroAsMotionAlways(s, key) == key = "0"

\* NormalModeCommandResolver.shouldTreatZeroAsMotion
shouldTreatZeroAsMotion(s, key) == key = "0" /\ s.countBuffer = <<>>

\* NormalModeCommandResolver.resolveMotionKey
resolveMotionKey(s, key) ==
    IF key \notin MotionKeys THEN Resolved(s, NoCommand)
    ELSE LET count == consumeCountOrOne(s.countBuffer)
             operator == s.pendingOperator
         IN  Resolved(resetPending(s),
                      IF operator = "delete" THEN Command("deleteMotion", key, count)
                      ELSE IF operator = "yank" THEN Command("yankMotion", key, count)
                      ELSE Command("move", key, count))

\* Faulty variant: the first press of an operator drops the count typed so far.
normalResolveOperatorDropsCount(s, event) ==
    LET key == makeKey(event)
        count == consumeCountOrOne(s.countBuffer)
    IN  IF isPureModifier(event.key) THEN Resolved(s, NoCommand)
        ELSE IF isDigit(event.key)
        THEN IF shouldTreatZeroAsMotion(s, event.key)
             THEN resolveMotionKey(s, "0")
             ELSE Resolved([s EXCEPT !.countBuffer = Append(@, event.key)], NoCommand)
        ELSE IF key = <<"d">>
        THEN IF s.pendingOperator = "delete"
             THEN Resolved(resetPending(s), Command("deleteLines", "", count))
             ELSE Resolved([s EXCEPT !.pendingOperator = "delete",
                                 !.countBuffer = <<>>], NoCommand)
        ELSE IF key = <<"y">>
        THEN IF s.pendingOperator = "yank"
             THEN Resolved(resetPending(s), Command("yankLines", "", count))
             ELSE Resolved([s EXCEPT !.pendingOperator = "yank",
                                 !.countBuffer = <<>>], NoCommand)
        ELSE IF key = <<"u">> THEN Resolved(resetPending(s), Command("undo", "", count))
        ELSE IF key = <<"Ctrl", "r">>
        THEN Resolved(resetPending(s), Command("redo", "", count))
        ELSE IF Len(key) = 1 /\ key[1] \in MotionKeys THEN resolveMotionKey(s, key[1])
        ELSE IF Len(key) = 1 /\ key[1] \in NormalCommandKeys
        THEN Resolved(resetPending(s), Command("normal", key[1], 0))
        ELSE Resolved(resetPending(s), NoCommand)

\* NormalModeCommandResolver.resolve
normalResolve(s, event) ==
    LET key == makeKey(event)
        count == consumeCountOrOne(s.countBuffer)
    IN  IF isPureModifier(event.key) THEN Resolved(s, NoCommand)
        ELSE IF isDigit(event.key)
        THEN IF shouldTreatZeroAsMotion(s, event.key)
             THEN resolveMotionKey(s, "0")
             ELSE Resolved([s EXCEPT !.countBuffer = Append(@, event.key)], NoCommand)
        ELSE IF key = <<"d">>
        THEN IF s.pendingOperator = "delete"
             THEN Resolved(resetPending(s), Command("deleteLines", "", count))
             ELSE Resolved([s EXCEPT !.pendingOperator = "delete"], NoCommand)
        ELSE IF key = <<"y">>
        THEN IF s.pendingOperator = "yank"
             THEN Resolved(resetPending(s), Command("yankLines", "", count))
             ELSE Resolved([s EXCEPT !.pendingOperator = "yank"], NoCommand)
        ELSE IF key = <<"u">> THEN Resolved(resetPending(s), Command("undo", "", count))
        ELSE IF key = <<"Ctrl", "r">>
        THEN Resolved(resetPending(s), Command("redo", "", count))
        ELSE IF Len(key) = 1 /\ key[1] \in MotionKeys THEN resolveMotionKey(s, key[1])
        ELSE IF Len(key) = 1 /\ key[1] \in NormalCommandKeys
        THEN Resolved(resetPending(s), Command("normal", key[1], 0))
        ELSE Resolved(resetPending(s), NoCommand)

\* KeyMapper.resolve
keyMapperResolve(s, event) ==
    IF s.mode = "normal" THEN normalResolve(s, event)
    ELSE IF s.mode \in {"visual-character", "visual-line"} THEN visualResolve(s, event)
    ELSE IF makeKey(event) \in InsertKeymapKeys
    THEN Resolved(s, Command("insertKey", event.key, 0))
    ELSE IF s.mode = "insert" /\ isSingleCharacter(event.key)
    THEN Resolved(s, Command("insertText", event.key, 0))
    ELSE Resolved(s, NoCommand)

\* buildDeleteWithMotionCommand / buildYankWithMotionCommand: the operator applied
\* to the motion's range.
deleteRange(s, range) ==
    IF range.type = "line"
    THEN deleteLineRange(s, range.startRow, range.endRow)
    ELSE deleteCharacterRange(s, range.row, range.startCol, range.endCol)

yankRange(s, range) ==
    IF range.type = "line"
    THEN yankLineRange(s, range.startRow, range.endRow)
    ELSE yankCharacterRange(s, range.row, range.startCol, range.endCol)

\* Faulty variant: one row too many.
buildDeleteLinesCommandOneMore(s, count) ==
    deleteLineRange(s, s.row,
        clampNumber(s.row + Max(1, count), 0, lineCount(s) - 1))

buildDeleteLinesCommand(s, count) ==
    deleteLineRange(s, s.row,
        clampNumber(s.row + Max(1, count) - 1, 0, lineCount(s) - 1))

buildYankLinesCommand(s, count) ==
    yankLineRange(s, s.row,
        clampNumber(s.row + Max(1, count) - 1, 0, lineCount(s) - 1))

buildUndoCommand(s, count) == [undoLoop(s, Max(1, count)) EXCEPT !.mode = "normal"]

buildRedoCommand(s, count) == [redoLoop(s, Max(1, count)) EXCEPT !.mode = "normal"]

\* The closures the resolvers build, applied to the state.
runCommand(s, command, event) ==
    CASE command.kind = "move" -> motionMove(s, command.key, Max(1, command.count))
      [] command.kind = "deleteMotion" ->
            deleteRange(s, motionToRange(s, command.key, Max(1, command.count)))
      [] command.kind = "yankMotion" ->
            yankRange(s, motionToRange(s, command.key, Max(1, command.count)))
      [] command.kind = "deleteLines" -> buildDeleteLinesCommand(s, command.count)
      [] command.kind = "yankLines" -> buildYankLinesCommand(s, command.count)
      [] command.kind = "undo" -> buildUndoCommand(s, command.count)
      [] command.kind = "redo" -> buildRedoCommand(s, command.count)
      [] command.kind = "normal" -> normalCommand(s, command.key)
      [] command.kind = "exitVisual" -> exitVisualCommand(s)
      [] command.kind = "yankVisual" -> yankVisualCommand(s)
      [] command.kind = "deleteVisual" -> deleteVisualCommand(s)
      [] command.kind = "insertKey" -> insertKeymapCommand(s, command.key)
      [] command.kind = "insertText" -> insertTextCommand(s, event)

----------------------------------------------------------------------------
(* CommandExecutor.run and ViModeController.processKeyboardEvent *)

executorRun(s, command, event, recordUndo) ==
    LET record(after) ==
            IF recordUndo THEN recordChange(after, createSnapshot(s)) ELSE after
    IN  record(runCommand(s, command, event))

\* Faulty variant: x opens a compound session too.
shouldStartInsertSessionAlsoX(s, event) ==
    s.mode = "normal" /\ event.key \in {"i", "a", "A", "o", "O", "x"}

shouldStartInsertSession(s, event) ==
    s.mode = "normal" /\ event.key \in {"i", "a", "A", "o", "O"}

\* Faulty variant: keystrokes of an insert session are recorded one by one.
dispatchRecordsEveryKey(s, command, event) ==
    LET wasInsertMode == s.mode = "insert"
        isUndo == command.kind = "undo"
        isRedo == command.kind = "redo"
        run(started) == executorRun(started, command, event, ~isUndo /\ ~isRedo)
        commit(after) ==
            IF wasInsertMode /\ after.mode = "normal"
            THEN commitCompoundIfChanged(after)
            ELSE after
    IN  commit(run(IF shouldStartInsertSession(s, event) THEN beginCompound(s) ELSE s))

\* Faulty variant: undo and redo are recorded like any other command.
dispatchRecordsUndo(s, command, event) ==
    LET wasInsertMode == s.mode = "insert"
        run(started) ==
            executorRun(started, command, event, ~hasPendingCompound(started))
        commit(after) ==
            IF wasInsertMode /\ after.mode = "normal"
            THEN commitCompoundIfChanged(after)
            ELSE after
    IN  commit(run(IF shouldStartInsertSession(s, event) THEN beginCompound(s) ELSE s))

\* processKeyboardEvent once the command is resolved (s is the state with the
\* resolver's update applied).
dispatch(s, command, event) ==
    LET wasInsertMode == s.mode = "insert"
        isUndo == command.kind = "undo"
        isRedo == command.kind = "redo"
        run(started) ==
            executorRun(started, command, event,
                        ~isUndo /\ ~isRedo /\ ~hasPendingCompound(started))
        commit(after) ==
            IF wasInsertMode /\ after.mode = "normal"
            THEN commitCompoundIfChanged(after)
            ELSE after
    IN  commit(run(IF shouldStartInsertSession(s, event) THEN beginCompound(s) ELSE s))

processKeyboardEvent(s, event) ==
    LET handle(resolved) ==
            clampToBuffer(IF resolved.command # NoCommand
                          THEN dispatch(resolved.s, resolved.command, event)
                          ELSE resolved.s)
    IN  handle(keyMapperResolve(s, event))

----------------------------------------------------------------------------
(* The state machine *)

\* The interpreter state as one record.
State ==
    [lines |-> lines, row |-> row, col |-> col, mode |-> mode,
     selection |-> selection, register |-> register,
     undoStack |-> undoStack, redoStack |-> redoStack,
     pendingSnapshot |-> pendingSnapshot,
     countBuffer |-> countBuffer, pendingOperator |-> pendingOperator,
     visualCountBuffer |-> visualCountBuffer]

NoSession == [null |-> TRUE]

\* Initial contents, cursor arguments and modes the controller is constructed with.
InitContents ==
    { <<>>,
      <<"a", "b", "c">>,
      <<"a", "b", NL, NL, "c", "d", "e">> }

InitCursorArgs == {-1, 0, 1, 2, 7}

InitModes == {"normal", "insert"}

\* ViModeController constructor (with createFullEditor / EditorBuffer constructor)
construct(content, initialMode, initialCursorRow, initialCursorCol) ==
    clampToBuffer(
        [lines |-> SplitLines(content),
         row |-> initialCursorRow, col |-> initialCursorCol,
         mode |-> initialMode,
         selection |-> NoSelection, register |-> <<>>,
         undoStack |-> <<>>, redoStack |-> <<>>, pendingSnapshot |-> NoSnapshot,
         countBuffer |-> <<>>, pendingOperator |-> "null",
         visualCountBuffer |-> <<>>])

SetState(s) ==
    /\ lines = s.lines /\ row = s.row /\ col = s.col /\ mode = s.mode
    /\ selection = s.selection /\ register = s.register
    /\ undoStack = s.undoStack /\ redoStack = s.redoStack
    /\ pendingSnapshot = s.pendingSnapshot
    /\ countBuffer = s.countBuffer /\ pendingOperator = s.pendingOperator
    /\ visualCountBuffer = s.visualCountBuffer

Init ==
    \E content \in InitContents, m \in InitModes,
       r \in InitCursorArgs, c \in InitCursorArgs :
        /\ SetState(construct(content, m, r, c))
        /\ lastEvent = NoEvent
        /\ prev = State
        /\ sessionStart = NoSession
        /\ initialContent = extractContent(State)
        /\ nKeys = 0

\* One call of processKeyboardEvent(event).
Becomes(s) ==
    /\ lines' = s.lines /\ row' = s.row /\ col' = s.col /\ mode' = s.mode
    /\ selection' = s.selection /\ register' = s.register
    /\ undoStack' = s.undoStack /\ redoStack' = s.redoStack
    /\ pendingSnapshot' = s.pendingSnapshot
    /\ countBuffer' = s.countBuffer /\ pendingOperator' = s.pendingOperator
    /\ visualCountBuffer' = s.visualCountBuffer

Step(event) ==
    /\ nKeys < MaxKeys
    /\ Becomes(processKeyboardEvent(State, event))
    /\ sessionStart' =
          IF mode = "normal" /\ mode' = "insert"
          THEN [before |-> State, edits |-> 0]
          ELSE IF mode = "insert" /\ sessionStart # NoSession
          THEN [sessionStart EXCEPT !.edits = IF lines' # lines THEN @ + 1 ELSE @]
          ELSE NoSession
    /\ initialContent' = initialContent
    /\ lastEvent' = event
    /\ prev' = State
    /\ nKeys' = nKeys + 1

\* The events of the model.  In insert mode every one-character key is text, so
\* the command keys are pressed outside insert mode and the text keys inside.
CountKeys == {"0", "1", "2"}

TextKeys == {"x", "u"}

InsertEditKeys == {"Backspace", "Delete", "Enter", "Tab"}

NotInsert == mode # "insert"

TypeDigit == NotInsert /\ \E k \in CountKeys : Step(Ev(k))

TypeOperator == NotInsert /\ \E k \in {"d", "y"} : Step(Ev(k))

TypeUndo == NotInsert /\ Step(Ev("u"))

TypeRedo == NotInsert /\ Step(CtrlEv("r"))

TypeMotion == NotInsert /\ \E k \in MotionKeys \ {"0"} : Step(Ev(k))

TypeNormalCommand == NotInsert /\ \E k \in NormalCommandKeys : Step(Ev(k))

TypeEscape == Step(Ev("Escape"))

TypeInsertEdit == mode = "insert" /\ \E k \in InsertEditKeys : Step(Ev(k))

TypeText == mode = "insert" /\ \E k \in TextKeys : Step(Ev(k))

TypeModifier == Step(Ev("Shift"))

TypeUnmapped == NotInsert /\ Step(Ev("z"))

Next ==
    \/ TypeDigit
    \/ TypeOperator
    \/ TypeUndo
    \/ TypeRedo
    \/ TypeMotion
    \/ TypeNormalCommand
    \/ TypeEscape
    \/ TypeInsertEdit
    \/ TypeText
    \/ TypeModifier
    \/ TypeUnmapped

Spec == Init /\ [][Next]_vars

----------------------------------------------------------------------------
(* Properties.  "prev" is the state before the last call of                  *)
(* processKeyboardEvent and "lastEvent" its event, so a statement about what *)
(* a key does relates prev to the current state; what a following key would  *)
(* do is computed with processKeyboardEvent.                                 *)

\* The last event was `u` (Ctrl+r) resolved by the normal-mode resolver.
UndoKey == lastEvent = Ev("u") /\ prev.mode = "normal"

RedoKey == lastEvent = CtrlEv("r") /\ prev.mode = "normal"

\* The last event was the second `d` of dd (the second `y` of yy).
DidDD == lastEvent = Ev("d") /\ prev.mode = "normal" /\ prev.pendingOperator = "delete"

DidYY == lastEvent = Ev("y") /\ prev.mode = "normal" /\ prev.pendingOperator = "yank"

\* The last event was the Escape that ended an insert session opened from
\* normal mode.
SessionEnded ==
    lastEvent = Ev("Escape") /\ prev.mode = "insert" /\ sessionStart # NoSession

\* The last event ran a content-changing command outside an insert session
\* and left the editor in normal mode: dd, d{motion}, x, D, p, P, visual d.
ContentChangingCommand ==
    /\ lastEvent \notin {Ev("u"), CtrlEv("r")}
    /\ prev.mode # "insert"
    /\ mode = "normal"
    /\ extractContent(State) # extractContent(prev)

\* The content and cursor of `after` are those of `before`.
SameText(after, before) ==
    /\ extractContent(after) = extractContent(before)
    /\ getPosition(after) = getPosition(before)

\* C1: the buffer has at least one line after every key event, and dd on a
\* one-line buffer leaves exactly one empty line.
C1_BufferNeverEmpty ==
    /\ Len(lines) >= 1
    /\ (DidDD /\ Len(prev.lines) = 1) => lines = << <<>> >>

C1_Witness == DidDD /\ Len(prev.lines) = 1 /\ prev.lines[1] # <<>>

\* C2: after construction and after every key event the cursor is inside the
\* buffer: 0 <= row <= lineCount - 1 and 0 <= col <= lineLength(row).
C2_CursorInBuffer ==
    /\ row \in 0..(Len(lines) - 1)
    /\ col \in 0..Len(lines[row + 1])

C2_Witness ==
    /\ lastEvent = Ev("j")
    /\ prev.mode = "normal"
    /\ row = prev.row + 1
    /\ prev.col > Len(lines[row + 1])
    /\ col = Len(lines[row + 1])

\* C3: after a content-changing command outside an insert session, one `u`
\* restores the content and the cursor position from just before the command.
C3_UndoRestoresCommand ==
    ContentChangingCommand =>
        SameText(processKeyboardEvent(State, Ev("u")), prev)

C3_Witness ==
    /\ ContentChangingCommand
    /\ prev.mode = "visual-character"
    /\ getPosition(State) # getPosition(prev)

\* C4: Ctrl+r right after a successful `u` restores the content and the cursor
\* position from just before that `u`.
C4_RedoRestoresUndone ==
    (UndoKey /\ prev.countBuffer = <<>> /\ prev.undoStack # <<>>) =>
        SameText(processKeyboardEvent(State, CtrlEv("r")), prev)

C4_Witness ==
    /\ UndoKey /\ prev.countBuffer = <<>> /\ prev.undoStack # <<>>
    /\ getPosition(State) # getPosition(prev)
    /\ extractContent(State) # extractContent(prev)

\* What C5 says of a finished insert session: it added exactly one undo entry
\* and one `u` restores the content and cursor from before the opening key.
OneUndoEntryForSession ==
    /\ Len(undoStack) = Len(sessionStart.before.undoStack) + 1
    /\ SameText(processKeyboardEvent(State, Ev("u")), sessionStart.before)

\* C5 as stated: an insert session with N >= 1 content-changing keystrokes adds
\* exactly one undo entry, and one `u` restores the state before the session.
C5_AsStated ==
    (SessionEnded /\ sessionStart.edits >= 1) => OneUndoEntryForSession

\* C5 amended: an insert session whose content at Escape differs from the
\* content before the opening key adds exactly one undo entry, and one `u`
\* restores the content and cursor from before the opening key, for every N.
C5_SessionIsOneUndo ==
    (SessionEnded /\ extractContent(State) # extractContent(sessionStart.before))
        => OneUndoEntryForSession

C5_Witness ==
    /\ SessionEnded
    /\ sessionStart.edits >= 2
    /\ extractContent(State) # extractContent(sessionStart.before)
    /\ getPosition(State) # getPosition(sessionStart.before)

\* The last event completed a content-changing edit: a command outside an
\* insert session, or the Escape of a session that changed the content.
CompletedEdit ==
    \/ ContentChangingCommand
    \/ SessionEnded /\ extractContent(State) # extractContent(sessionStart.before)

\* C6: a content-changing edit empties the redo stack, so a following Ctrl+r
\* leaves the content unchanged.
C6_EditClearsRedo ==
    CompletedEdit =>
        /\ redoStack = <<>>
        /\ extractContent(processKeyboardEvent(State, CtrlEv("r")))
               = extractContent(State)

C6_Witness == ContentChangingCommand /\ prev.redoStack # <<>>

\* The key event of the one-digit count m.
DigitEvent(m) == Ev(CHOOSE d \in Digits : DigitValue(d) = m)

\* C7: {n}u performs min(n, size of the undo stack) undo steps and {n}Ctrl+r
\* min(n, size of the redo stack) redo steps, the mode is normal afterwards;
\* undoing everything restores the initial content, and redoing as many steps
\* as were undone restores the content and cursor from before the undo.
C7_CountedUndoRedo ==
    /\ UndoKey =>
        LET n == consumeCountOrOne(prev.countBuffer)
            size == Len(prev.undoStack)
            m == Min(n, size)
        IN  /\ mode = "normal"
            /\ undoStack = SubSeq(prev.undoStack, 1, size - m)
            /\ Len(redoStack) = Len(prev.redoStack) + m
            /\ m = 0 => extractContent(State) = extractContent(prev)
            /\ m >= 1 => extractContent(State) = prev.undoStack[size - m + 1].content
            /\ undoStack = <<>> => extractContent(State) = initialContent
            /\ m \in 1..9 =>
                 SameText(processKeyboardEvent(
                              processKeyboardEvent(State, DigitEvent(m)), CtrlEv("r")),
                          prev)
    /\ RedoKey =>
        LET n == consumeCountOrOne(prev.countBuffer)
            size == Len(prev.redoStack)
            m == Min(n, size)
        IN  /\ mode = "normal"
            /\ redoStack = SubSeq(prev.redoStack, 1, size - m)
            /\ Len(undoStack) = Len(prev.undoStack) + m
            /\ m = 0 => extractContent(State) = extractContent(prev)
            /\ m >= 1 => extractContent(State) = prev.redoStack[size - m + 1].content

C7_Witness ==
    /\ UndoKey
    /\ prev.countBuffer = <<"2">>
    /\ Len(prev.undoStack) = 2
    /\ undoStack = <<>>

\* C8: `u` and Ctrl+r only move snapshots between the two stacks: the sum of
\* the stack sizes is unchanged, an undo keeps every redo entry and a redo
\* keeps every undo entry.
C8_UndoRedoNotRecorded ==
    (UndoKey \/ RedoKey) =>
        /\ Len(undoStack) + Len(redoStack)
               = Len(prev.undoStack) + Len(prev.redoStack)
        /\ UndoKey =>
             /\ Len(redoStack) >= Len(prev.redoStack)
             /\ SubSeq(redoStack, 1, Len(prev.redoStack)) = prev.redoStack
        /\ RedoKey =>
             /\ Len(undoStack) >= Len(prev.undoStack)
             /\ SubSeq(undoStack, 1, Len(prev.undoStack)) = prev.undoStack

C8_Witness ==
    /\ UndoKey
    /\ prev.undoStack # <<>>
    /\ prev.redoStack # <<>>
    /\ Len(redoStack) = Len(prev.redoStack) + 1

\* C9: `u` with an empty undo stack and Ctrl+r with an empty redo stack change
\* neither the content, the cursor, the selection, the register nor the stacks.
C9_EmptyStackIsNoOp ==
    ((UndoKey /\ prev.undoStack = <<>>) \/ (RedoKey /\ prev.redoStack = <<>>)) =>
        /\ lines = prev.lines
        /\ row = prev.row /\ col = prev.col
        /\ selection = prev.selection
        /\ register = prev.register
        /\ undoStack = prev.undoStack
        /\ redoStack = prev.redoStack

C9_Witness ==
    /\ UndoKey
    /\ prev.undoStack = <<>>
    /\ prev.redoStack # <<>>
    /\ prev.register # <<>>

\* The rows dd / yy act on: from the cursor row, n rows down, clamped to the
\* last row.
LastRowOfCount == Min(prev.row + consumeCountOrOne(prev.countBuffer) - 1,
                      Len(prev.lines) - 1)

RowsOfCount == SubSeq(prev.lines, prev.row + 1, LastRowOfCount + 1)

RowsOutsideCount ==
    SubSeq(prev.lines, 1, prev.row)
    \o SubSeq(prev.lines, LastRowOfCount + 2, Len(prev.lines))

\* C10: dd and yy with count n act on the rows [row, min(row+n-1, lineCount-1)]:
\* dd removes exactly those rows, yy leaves content and cursor unchanged, both
\* take those rows into the register and clear the count and pending operator.
C10_LinewiseCount ==
    /\ DidDD =>
        /\ lines = IF RowsOutsideCount = <<>> THEN << <<>> >> ELSE RowsOutsideCount
        /\ register = JoinLines(RowsOfCount) \o <<NL>>
        /\ countBuffer = <<>> /\ pendingOperator = "null"
    /\ DidYY =>
        /\ lines = prev.lines
        /\ row = prev.row /\ col = prev.col
        /\ register = JoinLines(RowsOfCount) \o <<NL>>
        /\ countBuffer = <<>> /\ pendingOperator = "null"

C10_Witness ==
    /\ DidDD
    /\ prev.countBuffer = <<"2">>
    /\ Len(prev.lines) = 3
    /\ prev.row = 0
    /\ Len(lines) = 1

\* The last event was the motion `key` resolved with a pending operator.
OperatorMotion(operator, key) ==
    /\ lastEvent = Ev(key)
    /\ prev.mode = "normal"
    /\ prev.pendingOperator = operator
    /\ key = "0" => prev.countBuffer = <<>>

\* The count the last event was resolved with.
PrevCount == consumeCountOrOne(prev.countBuffer)

\* The line the cursor was on before the last event.
PrevLine == prev.lines[prev.row + 1]

\* The rows of ls without the rows first..last (0-based), one empty line if
\* none is left.
WithoutRows(ls, first, last) ==
    LET rest == SubSeq(ls, 1, first) \o SubSeq(ls, last + 2, Len(ls))
    IN  IF rest = <<>> THEN << <<>> >> ELSE rest

\* The line without its columns [from, to).
WithoutCols(line, from, to) ==
    SubSeq(line, 1, from) \o SubSeq(line, to + 1, Len(line))

\* C11: d{n}j removes exactly the rows [row, min(row+n-1, last)] and d{n}k
\* exactly the rows [max(0, row-(n-1)), row]; every other row is unchanged.
C11_DeleteLineMotion ==
    /\ OperatorMotion("delete", "j") =>
         lines = WithoutRows(prev.lines, prev.row,
                             Min(prev.row + PrevCount - 1, Len(prev.lines) - 1))
    /\ OperatorMotion("delete", "k") =>
         lines = WithoutRows(prev.lines, Max(0, prev.row - (PrevCount - 1)), prev.row)

C11_Witness ==
    /\ OperatorMotion("delete", "k")
    /\ prev.countBuffer = <<"2">>
    /\ prev.row = 2
    /\ Len(prev.lines) = 3
    /\ Len(lines) = 1

\* C12 as stated: d$ with the cursor at column col removes exactly the columns
\* [col, lineLength) of the cursor row.
C12_AsStated ==
    OperatorMotion("delete", "$") =>
        lines = [prev.lines EXCEPT ![prev.row + 1] =
                    WithoutCols(PrevLine, prev.col, Len(PrevLine))]

\* C12 amended: d$ removes exactly the columns [min(col, lineLength-1),
\* lineLength) of the cursor row (nothing on an empty line): from the cursor
\* through the last character, and the last character when the cursor is at
\* the past-end column col = lineLength.
C12_DeleteToLineEnd ==
    OperatorMotion("delete", "$") =>
        lines = [prev.lines EXCEPT ![prev.row + 1] =
                    IF PrevLine = <<>> THEN <<>>
                    ELSE WithoutCols(PrevLine, Min(prev.col, Len(PrevLine) - 1),
                                     Len(PrevLine))]

C12_Witness ==
    /\ OperatorMotion("delete", "$")
    /\ PrevLine # <<>>
    /\ prev.col = Len(PrevLine)
    /\ Len(lines[row + 1]) = Len(PrevLine) - 1

\* C13: with a pending delete, d{n}h removes the columns [max(0,col-n), col),
\* d{n}l the columns [col, min(lineLength, col+n)) and d0 the columns [0, col)
\* of the cursor row only; afterwards the cursor is on the same row at the
\* start of the removed range.
C13_DeleteCharMotion ==
    /\ OperatorMotion("delete", "h") =>
         /\ lines = [prev.lines EXCEPT ![prev.row + 1] =
                        WithoutCols(PrevLine, Max(0, prev.col - PrevCount), prev.col)]
         /\ row = prev.row /\ col = Max(0, prev.col - PrevCount)
    /\ OperatorMotion("delete", "l") =>
         /\ lines = [prev.lines EXCEPT ![prev.row + 1] =
                        WithoutCols(PrevLine, prev.col,
                                    Min(Len(PrevLine), prev.col + PrevCount))]
         /\ row = prev.row /\ col = prev.col
    /\ OperatorMotion("delete", "0") =>
         /\ lines = [prev.lines EXCEPT ![prev.row + 1] =
                        WithoutCols(PrevLine, 0, prev.col)]
         /\ row = prev.row /\ col = 0

C13_Witness ==
    /\ OperatorMotion("delete", "0")
    /\ prev.col = 1
    /\ Len(PrevLine) = 3
    /\ lines[row + 1] = SubSeq(PrevLine, 2, 3)

Operators == {"delete", "yank"}

\* The last event was the motion `key` resolved with a pending d or y.
AnyOperatorMotion(key) == \E operator \in Operators : OperatorMotion(operator, key)

\* The last event was y or d resolved in the visual mode `visualMode`.
VisualOperator(visualMode) ==
    lastEvent \in {Ev("y"), Ev("d")} /\ prev.mode = visualMode

\* The half-open column range [from, to) of the cursor row a character motion
\* with a pending operator covers, by the motion table.
CharRange(key) ==
    CASE key = "h" -> [from |-> Max(0, prev.col - PrevCount), to |-> prev.col]
      [] key = "l" -> [from |-> prev.col,
                       to |-> Min(Len(PrevLine), prev.col + PrevCount)]
      [] key = "0" -> [from |-> 0, to |-> prev.col]
      [] key = "$" -> [from |-> IF PrevLine = <<>> THEN 0
                                ELSE Min(prev.col, Len(PrevLine) - 1),
                       to |-> Len(PrevLine)]

CharMotionKeys == {"h", "l", "0", "$"}

\* The last event was a character motion with a pending operator over a
\* non-empty range.
CharOperatorMotion(key) ==
    AnyOperatorMotion(key) /\ CharRange(key).from < CharRange(key).to

\* The offset in the joined content at which row r (0-based) starts.
RECURSIVE LineStart(_, _)
LineStart(ls, r) == IF r = 0 THEN 0 ELSE LineStart(ls, r - 1) + Len(ls[r]) + 1

\* Position a is at or before position b.
PosBefore(a, b) == a.row < b.row \/ (a.row = b.row /\ a.col <= b.col)

\* The text a visual-character selection of state s covers: from the earlier
\* of anchor and cursor through the character under the later one.
VisualCharText(s) ==
    LET anchor == s.selection.anchor
        head == getPosition(s)
        start == IF PosBefore(anchor, head) THEN anchor ELSE head
        end == IF PosBefore(anchor, head) THEN head ELSE anchor
    IN  SubSeq(JoinLines(s.lines),
               LineStart(s.lines, start.row) + start.col + 1,
               LineStart(s.lines, end.row)
                   + Min(Len(s.lines[end.row + 1]), end.col + 1))

\* The rows a visual-line selection of state s covers, each ended by a newline.
VisualLineText(s) ==
    JoinLines(SubSeq(s.lines, Min(s.selection.anchor.row, s.row) + 1,
                     Max(s.selection.anchor.row, s.row) + 1)) \o <<NL>>

\* C14 as stated: the register is "" initially, and after every command that
\* yanks or deletes text (yy, y{motion}, dd, d{motion}, x, D, visual y,
\* visual d) it holds the text that command yanked or deleted.
C14_AsStated ==
    /\ nKeys = 0 => register = <<>>
    /\ (DidDD \/ DidYY) => register = JoinLines(RowsOfCount) \o <<NL>>
    /\ AnyOperatorMotion("j") =>
         register = JoinLines(SubSeq(prev.lines, prev.row + 1,
                        Min(prev.row + PrevCount - 1, Len(prev.lines) - 1) + 1))
                    \o <<NL>>
    /\ AnyOperatorMotion("k") =>
         register = JoinLines(SubSeq(prev.lines,
                        Max(0, prev.row - (PrevCount - 1)) + 1, prev.row + 1))
                    \o <<NL>>
    /\ \A key \in CharMotionKeys :
         CharOperatorMotion(key) =>
             register = SubSeq(PrevLine, CharRange(key).from + 1, CharRange(key).to)
    /\ VisualOperator("visual-character") => register = VisualCharText(prev)
    /\ VisualOperator("visual-line") => register = VisualLineText(prev)
    /\ (lastEvent = Ev("x") /\ prev.mode = "normal" /\ prev.col < Len(PrevLine)) =>
         register = <<PrevLine[prev.col + 1]>>
    /\ (lastEvent = Ev("D") /\ prev.mode = "normal" /\ prev.col < Len(PrevLine)) =>
         register = SubSeq(PrevLine, prev.col + 1, Len(PrevLine))

\* The last event wrote the register linewise: dd, yy, d/y with j or k,
\* visual-line y or d.
LinewiseWrite ==
    \/ DidDD \/ DidYY
    \/ AnyOperatorMotion("j") \/ AnyOperatorMotion("k")
    \/ VisualOperator("visual-line")

\* The last event wrote the register charwise: d/y with h, l, 0 or $ over a
\* non-empty range, visual-character y or d.
CharwiseWrite ==
    \/ \E key \in CharMotionKeys : CharOperatorMotion(key)
    \/ VisualOperator("visual-character")

\* C15 as stated: the register ends with a newline if and only if it was
\* written by a linewise operation; a charwise operation never leaves it
\* ending with a newline (and no other key writes it).
C15_AsStated ==
    /\ LinewiseWrite => endsWithNL(register)
    /\ CharwiseWrite => ~endsWithNL(register)
    /\ (~LinewiseWrite /\ ~CharwiseWrite) => register = prev.register

\* The last event was d with the character motion `key` over a non-empty range.
CharDelete(key) == OperatorMotion("delete", key) /\ CharRange(key).from < CharRange(key).to

\* C16 as stated: after deleting a non-empty character range with d and h, l,
\* 0 or $, both `P` and `p`, pressed without moving the cursor, reproduce the
\* original line.
C16_AsStated ==
    \A key \in CharMotionKeys :
        CharDelete(key) =>
            /\ processKeyboardEvent(State, Ev("P")).lines = prev.lines
            /\ processKeyboardEvent(State, Ev("p")).lines = prev.lines

\* C16 amended: after deleting a non-empty character range with d and h, l, 0
\* or $, `P` pressed without moving the cursor reproduces the original line;
\* `p` does so when the deleted range reached the end of the line.
C16_DeleteThenPaste ==
    \A key \in CharMotionKeys :
        CharDelete(key) =>
            /\ processKeyboardEvent(State, Ev("P")).lines = prev.lines
            /\ CharRange(key).to = Len(PrevLine) =>
                 processKeyboardEvent(State, Ev("p")).lines = prev.lines

C16_Witness ==
    /\ CharDelete("l")
    /\ prev.countBuffer = <<"2">>
    /\ prev.col = 1
    /\ Len(PrevLine) = 3
    /\ lines[row + 1] = SubSeq(PrevLine, 1, 1)

\* The last event was a linewise delete: {n}dd, or d in visual-line mode.
LinewiseDelete ==
    DidDD \/ (lastEvent = Ev("d") /\ prev.mode = "visual-line")

\* The last row the linewise delete removed.
LastDeletedRow ==
    IF DidDD THEN LastRowOfCount ELSE Max(prev.selection.anchor.row, prev.row)

PasteKey(key) ==
    lastEvent = Ev(key) /\ prev.mode = "normal" /\ prev.register # <<>>

\* A register content ending with a newline.
Linewise(text) == text # <<>> /\ text[Len(text)] = NL

\* The rows at..at+k-1 (0-based) of the buffer are new and spell the register,
\* the rows around them are the previous rows, the cursor is on the last new
\* row at column 0.
RowsInsertedAt(at, k) ==
    /\ k >= 1
    /\ SubSeq(lines, 1, at) = SubSeq(prev.lines, 1, at)
    /\ SubSeq(lines, at + k + 1, Len(lines)) = SubSeq(prev.lines, at + 1, Len(prev.lines))
    /\ JoinLines(SubSeq(lines, at + 1, at + k)) \o <<NL>> = prev.register
    /\ row = at + k - 1
    /\ col = 0

\* C18: pasting a linewise register inserts its lines as whole rows immediately
\* before the cursor row for P and immediately after it for p, leaves every
\* existing row unchanged and puts the cursor on the last inserted row,
\* column 0.
C18_LinewisePaste ==
    /\ (PasteKey("P") /\ Linewise(prev.register)) =>
         RowsInsertedAt(prev.row, Len(lines) - Len(prev.lines))
    /\ (PasteKey("p") /\ Linewise(prev.register)) =>
         RowsInsertedAt(prev.row + 1, Len(lines) - Len(prev.lines))

C18_Witness ==
    /\ PasteKey("P")
    /\ Linewise(prev.register)
    /\ Len(lines) = Len(prev.lines) + 2
    /\ prev.row = 1
    /\ row = 2

\* The previous content with the register spliced in at offset `at`; the cursor
\* is on the last spliced character.
SplicedAt(content, at) ==
    /\ extractContent(State)
           = SubSeq(content, 1, at) \o prev.register
             \o SubSeq(content, at + 1, Len(content))
    /\ LineStart(lines, row) + col = at + Len(prev.register) - 1

\* C19: pasting a charwise register splices it into the cursor row at column
\* col for P and col+1 for p (clamped to the line length), an embedded newline
\* splitting the row; the cursor lands on the last inserted character.
C19_CharwisePaste ==
    /\ (PasteKey("P") /\ ~Linewise(prev.register)) =>
         SplicedAt(extractContent(prev),
                   LineStart(prev.lines, prev.row) + Min(Len(PrevLine), prev.col))
    /\ (PasteKey("p") /\ ~Linewise(prev.register)) =>
         SplicedAt(extractContent(prev),
                   LineStart(prev.lines, prev.row) + Min(Len(PrevLine), prev.col + 1))

C19_Witness ==
    /\ PasteKey("p")
    /\ ~Linewise(prev.register)
    /\ \E i \in 1..Len(prev.register) : prev.register[i] = NL
    /\ Len(lines) = Len(prev.lines) + 1

\* The last event was y or d on a visual-character selection whose anchor is
\* the cursor position.
SingleCharSelection ==
    /\ VisualOperator("visual-character")
    /\ prev.selection.anchor = getPosition(prev)

\* C20 as stated: y or d on a visual-character selection whose anchor equals
\* its head puts exactly one character in the register, for every reachable
\* cursor position.
C20_AsStated == SingleCharSelection => Len(register) = 1

\* C20 amended: y or d on a visual-character selection whose anchor equals its
\* head puts the character under the cursor, and only it, in the register when
\* there is one (col < lineLength); at the past-end column the register
\* becomes empty.
C20_SingleCharSelection ==
    SingleCharSelection =>
        register = IF prev.col < Len(PrevLine) THEN <<PrevLine[prev.col + 1]>>
                   ELSE <<>>

C20_Witness ==
    /\ SingleCharSelection
    /\ lastEvent = Ev("d")
    /\ prev.col < Len(PrevLine)
    /\ Len(register) = 1
    /\ Len(lines[row + 1]) = Len(PrevLine) - 1

VisualModes == {"visual-character", "visual-line"}

\* The last event was `key` resolved by the visual-mode resolver.
VisualKey(key) == lastEvent = Ev(key) /\ prev.mode \in VisualModes

\* C21: Escape in visual mode sets the mode to normal and the selection to
\* null and leaves the content, the cursor, the register and both undo stacks
\* unchanged.
C21_EscapeLeavesVisual ==
    VisualKey("Escape") =>
        /\ mode = "normal"
        /\ selection = NoSelection
        /\ lines = prev.lines
        /\ row = prev.row /\ col = prev.col
        /\ register = prev.register
        /\ undoStack = prev.undoStack
        /\ redoStack = prev.redoStack

C21_Witness ==
    /\ VisualKey("Escape")
    /\ prev.mode = "visual-line"
    /\ prev.selection.anchor # getPosition(prev)
    /\ mode = "normal"

\* C22: in visual mode a single y stores the text of the anchor-to-cursor
\* selection in the register, leaves the content unchanged, adds no undo
\* entry, leaves no pending operator, and returns to normal mode with the
\* selection cleared.
C22_VisualYank ==
    VisualKey("y") =>
        /\ register = IF prev.mode = "visual-line"
                      THEN VisualLineText(prev) ELSE VisualCharText(prev)
        /\ lines = prev.lines
        /\ undoStack = prev.undoStack
        /\ pendingOperator = "null"
        /\ mode = "normal"
        /\ selection = NoSelection

C22_Witness ==
    /\ VisualKey("y")
    /\ prev.mode = "visual-character"
    /\ prev.selection.anchor.row # prev.row
    /\ Len(register) >= 3
    /\ selection = NoSelection

\* C23: while the editor stays in visual mode, a motion key or count digit
\* changes neither the anchor nor the type of the selection, and the head
\* getSelection reports is the cursor position.
C23_MotionKeepsAnchor ==
    /\ mode \in VisualModes => getSelection(State).head = getPosition(State)
    /\ (prev.mode \in VisualModes /\ lastEvent.key \in MotionKeys \cup Digits) =>
         /\ mode = prev.mode
         /\ selection = prev.selection

C23_Witness ==
    /\ VisualKey("j")
    /\ prev.visualCountBuffer = <<"2">>
    /\ row = prev.row + 2
    /\ getSelection(State).anchor.row = prev.row
    /\ getSelection(State).head.row = row

\* The state after the keys `keys` (a sequence of key names) typed in state s.
RECURSIVE TypeKeys(_, _)
TypeKeys(s, keys) ==
    IF keys = <<>> THEN s
    ELSE TypeKeys(processKeyboardEvent(s, Ev(Head(keys))), Tail(keys))

\* The last event was the motion `key` resolved as a plain cursor move.
PlainMove(key) ==
    /\ lastEvent = Ev(key)
    /\ \/ prev.mode = "normal" /\ prev.pendingOperator = "null"
       \/ prev.mode \in VisualModes

\* The count digits the move was resolved with, and their value.
MoveDigits == IF prev.mode = "normal" THEN prev.countBuffer ELSE prev.visualCountBuffer

MoveCount == consumeCountOrOne(MoveDigits)

InverseMotion(key) ==
    CASE key = "h" -> "l" [] key = "l" -> "h" [] key = "j" -> "k" [] key = "k" -> "j"

\* The move reached its target (row or column +- n) without being clamped to
\* the first or last row, to column 0 or to the end of the line it lands on.
Unclamped(key) ==
    CASE key = "h" -> prev.col - MoveCount >= 0
      [] key = "l" -> prev.col + MoveCount <= Len(PrevLine)
      [] key = "j" -> /\ prev.row + MoveCount <= Len(prev.lines) - 1
                      /\ prev.col <= Len(prev.lines[prev.row + MoveCount + 1])
      [] key = "k" -> /\ prev.row - MoveCount >= 0
                      /\ prev.col <= Len(prev.lines[prev.row - MoveCount + 1])

\* C24: for h/l and j/k and every count n, the motion with count n followed by
\* its inverse with count n returns the cursor to its original (row, col),
\* unless the first motion was clamped at a buffer edge.
C24_InverseMotions ==
    \A key \in {"h", "l", "j", "k"} :
        (PlainMove(key) /\ Unclamped(key)) =>
            getPosition(TypeKeys(State, MoveDigits \o <<InverseMotion(key)>>))
                = getPosition(prev)

C24_Witness ==
    /\ PlainMove("j")
    /\ prev.mode = "normal"
    /\ MoveDigits = <<"2">>
    /\ Unclamped("j")
    /\ prev.col > 0
    /\ row = prev.row + 2

Modifiers == {"Shift", "Control", "Alt", "Meta"}

\* C25: a lone modifier key resolves to no command and changes nothing, the
\* count buffer and the pending operator included, so the key typed after it
\* acts as if the modifier had not been typed (d, Shift, $ is d$).
C25_ModifierIgnored ==
    /\ \A m \in Modifiers : processKeyboardEvent(State, Ev(m)) = State
    /\ lastEvent.key \in Modifiers =>
         /\ State = prev
         /\ processKeyboardEvent(State, Ev("$")) = processKeyboardEvent(prev, Ev("$"))
         /\ processKeyboardEvent(State, Ev("d")) = processKeyboardEvent(prev, Ev("d"))

C25_Witness ==
    /\ lastEvent = Ev("Shift")
    /\ prev.mode = "normal"
    /\ prev.pendingOperator = "delete"
    /\ prev.countBuffer = <<"2">>
    /\ pendingOperator = "delete"
    /\ countBuffer = <<"2">>

\* C26: in normal and visual mode the key 0 is the line-start motion exactly
\* when the count buffer is empty and a count digit otherwise: 0 alone moves
\* to column 0, d0 deletes to the line start, and 1, 0, j moves ten rows.
C26_ZeroMotionOrDigit ==
    /\ (lastEvent = Ev("0") /\ prev.mode = "normal" /\ prev.countBuffer # <<>>) =>
         State = [prev EXCEPT !.countBuffer = Append(prev.countBuffer, "0")]
    /\ (lastEvent = Ev("0") /\ prev.mode = "normal" /\ prev.countBuffer = <<>>) =>
         /\ countBuffer = <<>> /\ pendingOperator = "null"
         /\ row = prev.row
         /\ prev.pendingOperator # "yank" => col = 0
         /\ lines = IF prev.pendingOperator = "delete"
                    THEN [prev.lines EXCEPT ![prev.row + 1] =
                             WithoutCols(PrevLine, 0, prev.col)]
                    ELSE prev.lines
    /\ (VisualKey("0") /\ prev.visualCountBuffer # <<>>) =>
         State = [prev EXCEPT !.visualCountBuffer = Append(prev.visualCountBuffer, "0")]
    /\ (VisualKey("0") /\ prev.visualCountBuffer = <<>>) =>
         /\ visualCountBuffer = <<>>
         /\ row = prev.row /\ col = 0
         /\ lines = prev.lines
    /\ (PlainMove("j") /\ MoveDigits = <<"1", "0">>) =>
         /\ row = Min(prev.row + 10, Len(prev.lines) - 1)
         /\ lines = prev.lines

C26_Witness ==
    /\ lastEvent = Ev("0")
    /\ prev.mode = "normal"
    /\ prev.countBuffer = <<"1">>
    /\ prev.col > 0
    /\ col = prev.col
    /\ countBuffer = <<"1", "0">>

UnmappedKeys == {"z", "Escape", "Backspace"}

\* State s with the count buffer and the pending operator cleared.
PendingCleared(s) == [s EXCEPT !.countBuffer = <<>>, !.pendingOperator = "null"]

\* C27: in normal mode a key that is neither digit, operator, undo/redo,
\* motion nor mapped command (z, Escape) clears countBuffer and
\* pendingOperator and changes nothing else, so a motion typed next is a plain
\* cursor move.
C27_UnmappedKeyResets ==
    /\ mode = "normal" =>
         \A key \in UnmappedKeys :
             processKeyboardEvent(State, Ev(key)) = PendingCleared(State)
    /\ (lastEvent.key \in UnmappedKeys /\ prev.mode = "normal") =>
         /\ State = PendingCleared(prev)
         /\ processKeyboardEvent(State, Ev("$"))
                = [State EXCEPT !.col = Max(0, Len(lines[row + 1]) - 1)]

C27_Witness ==
    /\ lastEvent = Ev("z")
    /\ prev.mode = "normal"
    /\ prev.pendingOperator = "delete"
    /\ prev.countBuffer = <<"2">>
    /\ pendingOperator = "null"
    /\ countBuffer = <<>>

\* The last event was the normal-mode command `key`.
NormalKey(key) == lastEvent = Ev(key) /\ prev.mode = "normal"

\* C28: normal-mode x removes the character under the cursor; with the cursor
\* column equal to the line length and a next row present it joins the next
\* row onto the current one; at the end of the last row it does nothing; the
\* cursor position is unchanged in every case.
C28_DeleteChar ==
    NormalKey("x") =>
        /\ getPosition(State) = getPosition(prev)
        /\ mode = "normal"
        /\ lines =
             IF prev.col < Len(PrevLine)
             THEN [prev.lines EXCEPT ![prev.row + 1] =
                      WithoutCols(PrevLine, prev.col, prev.col + 1)]
             ELSE IF prev.row < Len(prev.lines) - 1
             THEN WithoutRows(
                      [prev.lines EXCEPT ![prev.row + 1] =
                          PrevLine \o prev.lines[prev.row + 2]],
                      prev.row + 1, prev.row + 1)
             ELSE prev.lines

C28_Witness ==
    /\ NormalKey("x")
    /\ prev.col = Len(PrevLine)
    /\ prev.col > 0
    /\ prev.row < Len(prev.lines) - 1
    /\ Len(prev.lines[prev.row + 2]) > 0
    /\ Len(lines) = Len(prev.lines) - 1

\* C29: normal-mode D truncates the cursor row to its first col characters and
\* keeps the cursor position; a second D right after changes neither content
\* nor cursor.
C29_DeleteToEnd ==
    NormalKey("D") =>
        /\ lines = [prev.lines EXCEPT ![prev.row + 1] = SubSeq(PrevLine, 1, prev.col)]
        /\ getPosition(State) = getPosition(prev)
        /\ SameText(processKeyboardEvent(State, Ev("D")), State)

C29_Witness ==
    /\ NormalKey("D")
    /\ prev.col > 0
    /\ prev.col < Len(PrevLine)
    /\ Len(lines[row + 1]) = col

\* An insert session opened by i/a/A/o/O is in progress.
InSession == mode = "insert" /\ sessionStart # NoSession

SessionKeys == {Ev("x"), Ev("u"), Ev("Backspace"), Ev("Delete"), Ev("Enter"),
                Ev("Tab"), Ev("Shift"), CtrlEv("r")}

\* C30: while an insert session opened by i/a/A/o/O is in progress no
\* keystroke changes the undo stack; the Escape that ends it adds exactly one
\* entry (the snapshot from before the opening key) if the content differs
\* from the content at session start, and none otherwise.
C30_SessionUndoStack ==
    /\ InSession =>
         /\ undoStack = sessionStart.before.undoStack
         /\ \A event \in SessionKeys :
                processKeyboardEvent(State, event).undoStack = undoStack
    /\ SessionEnded =>
         undoStack =
             IF extractContent(State) # extractContent(sessionStart.before)
             THEN Append(sessionStart.before.undoStack,
                         createSnapshot(sessionStart.before))
             ELSE sessionStart.before.undoStack

C30_Witness ==
    /\ SessionEnded
    /\ sessionStart.edits >= 2
    /\ extractContent(State) = extractContent(sessionStart.before)
    /\ undoStack = sessionStart.before.undoStack

\* The last event was not undo or redo and left extractContent() unchanged.
ContentKept ==
    /\ lastEvent \notin {NoEvent, Ev("u"), CtrlEv("r")}
    /\ extractContent(State) = extractContent(prev)

StacksKept == undoStack = prev.undoStack /\ redoStack = prev.redoStack

LineRangeDelete ==
    DidDD \/ OperatorMotion("delete", "j") \/ OperatorMotion("delete", "k")

\* The rows [s, e] (0-based) that delete covers.
DeletedRows ==
    IF DidDD THEN [s |-> prev.row, e |-> LastRowOfCount]
    ELSE IF lastEvent = Ev("j")
    THEN [s |-> prev.row, e |-> Min(prev.row + PrevCount - 1, Len(prev.lines) - 1)]
    ELSE [s |-> Max(0, prev.row - (PrevCount - 1)), e |-> prev.row]

\* C32: a line-range delete over rows [s, e] sets the register to the texts of
\* rows s..e as they were before removal, joined by newlines and followed by a
\* newline, and leaves the cursor on row min(s, new last row) with its previous
\* column clamped to that row's length.
C32_LineRangeDelete ==
    LineRangeDelete =>
        /\ register = JoinLines(SubSeq(prev.lines, DeletedRows.s + 1, DeletedRows.e + 1))
                      \o <<NL>>
        /\ lines = WithoutRows(prev.lines, DeletedRows.s, DeletedRows.e)
        /\ row = Min(DeletedRows.s, Len(lines) - 1)
        /\ col = Min(prev.col, Len(lines[row + 1]))

C32_Witness ==
    /\ DidDD
    /\ prev.countBuffer = <<"2">>
    /\ Len(prev.lines) = 3
    /\ prev.row = 0
    /\ prev.col = 2
    /\ row = 0 /\ col = 2
    /\ Len(register) = 4

\* The character motion `key` covers no column: h or 0 at column 0, l with the
\* cursor at the line length, $ on an empty line.
EmptyRange(key) ==
    CASE key = "h" -> prev.col = 0
      [] key = "0" -> prev.col = 0
      [] key = "l" -> prev.col = Len(PrevLine)
      [] key = "$" -> PrevLine = <<>>

\* C33: a character-range delete or yank whose clamped range is empty (dh or d0
\* at column 0, dl at the line length, d$ on an empty line) changes neither
\* content, cursor, register nor the undo and redo stacks, and still clears the
\* pending operator.
C33_EmptyRangeNoOp ==
    \A key \in CharMotionKeys :
        (AnyOperatorMotion(key) /\ EmptyRange(key)) =>
            State = [prev EXCEPT !.pendingOperator = "null", !.countBuffer = <<>>]

C33_Witness ==
    /\ OperatorMotion("delete", "l")
    /\ EmptyRange("l")
    /\ Len(PrevLine) > 0
    /\ prev.register # <<>>
    /\ register = prev.register
    /\ pendingOperator = "null"

\* The row a plain j or k with the pending count lands on.
TargetRow(key) ==
    IF key = "j" THEN Min(Len(prev.lines) - 1, prev.row + MoveCount)
    ELSE Max(0, prev.row - MoveCount)

\* The position the motion table gives for a plain move with the pending count.
MotionTarget(key) ==
    CASE key = "h" -> [row |-> prev.row, col |-> Max(0, prev.col - MoveCount)]
      [] key = "l" -> [row |-> prev.row, col |-> Min(Len(PrevLine), prev.col + MoveCount)]
      [] key \in {"j", "k"} ->
            [row |-> TargetRow(key),
             col |-> Min(prev.col, Len(prev.lines[TargetRow(key) + 1]))]
      [] key = "0" -> [row |-> prev.row, col |-> 0]
      [] key = "$" -> [row |-> prev.row,
                       col |-> IF PrevLine = <<>> THEN 0 ELSE Len(PrevLine) - 1]

Swapped(s) ==
    [s EXCEPT !.selection = [type |-> s.selection.type, anchor |-> getPosition(s)],
              !.row = s.selection.anchor.row,
              !.col = s.selection.anchor.col]

\* The normalised range r starts at or before the last position it covers.
Ordered(r) ==
    IF r.type = "line" THEN r.startRow <= r.endRow
    ELSE PosBefore([row |-> r.startRow, col |-> r.startCol],
                   [row |-> r.endRow, col |-> r.endCol - 1])

\* Register and content after `key` typed in s and in s with anchor and cursor
\* exchanged are the same.
SymmetricResult(a, b) == a.register = b.register /\ a.lines = b.lines

\* C35: selection normalisation is symmetric in anchor and cursor: visual y and
\* d with anchor A and cursor B give the same register and the same content as
\* with anchor B and cursor A, and the normalised range has
\* (startRow, startCol) <= (endRow, endCol-1) in row-major order.
C35_SelectionSymmetric ==
    /\ mode \in VisualModes =>
         /\ Ordered(getSelectionRange(State))
         /\ Ordered(getSelectionRange(Swapped(State)))
    /\ \A key \in {"y", "d"} :
         VisualKey(key) =>
             SymmetricResult(State, processKeyboardEvent(Swapped(prev), Ev(key)))

C35_Witness ==
    /\ VisualKey("d")
    /\ prev.mode = "visual-character"
    /\ prev.selection.anchor.row = prev.row
    /\ prev.selection.anchor.col > prev.col
    /\ Len(lines[row + 1]) = Len(PrevLine) - (prev.selection.anchor.col - prev.col + 1)

\* C36 as stated: after every key event getSelection() is non-null if and only
\* if the mode is visual-character or visual-line, and then its type matches
\* the mode; in particular the selection is null in normal mode after u and
\* Ctrl+r.
C36_AsStated ==
    /\ getSelection(State).type # "null" <=> mode \in VisualModes
    /\ mode = "visual-character" => getSelection(State).type = "character"
    /\ mode = "visual-line" => getSelection(State).type = "line"
    /\ (lastEvent \in {Ev("u"), CtrlEv("r")} /\ mode = "normal") =>
          getSelection(State).type = "null"

\* C37: an open compound snapshot exists only in insert mode: after every key
\* event hasPendingCompound() implies mode = insert, so a content-changing
\* command in normal or visual mode is recorded: at once, with the snapshot
\* from before it, or (o, O) by the session it opens.
C37_CompoundOnlyInInsert ==
    /\ hasPendingCompound(State) => mode = "insert"
    /\ ContentChangingCommand =>
          undoStack = Append(prev.undoStack, createSnapshot(prev))
    /\ (prev.mode = "normal" /\ mode = "insert") =>
          /\ pendingSnapshot = createSnapshot(prev)
          /\ undoStack = prev.undoStack

C37_Witness ==
    /\ SessionEnded
    /\ hasPendingCompound(prev)
    /\ ~hasPendingCompound(State)
    /\ mode = "normal"
    /\ extractContent(State) # extractContent(sessionStart.before)

\* The previous rows with the rows dd removed repeated below the cursor row.
RowsDuplicated ==
    SubSeq(prev.lines, 1, prev.row + 1) \o RowsOfCount
    \o SubSeq(prev.lines, prev.row + 2, Len(prev.lines))

\* s is dd's result followed by u and then p.
UndoneThenPasted(s) == processKeyboardEvent(processKeyboardEvent(s, Ev("u")), Ev("p"))

\* C38: undo and redo never change the register: after u or Ctrl+r it holds
\* the same text as before, so dd, u, p duplicates the deleted line.
C38_UndoKeepsRegister ==
    /\ lastEvent \in {Ev("u"), CtrlEv("r")} => register = prev.register
    /\ (DidDD /\ extractContent(State) # extractContent(prev)) =>
          UndoneThenPasted(State).lines = RowsDuplicated

C38_Witness ==
    /\ lastEvent = Ev("u")
    /\ prev.mode = "normal"
    /\ prev.register # <<>>
    /\ Len(lines) = Len(prev.lines) + 1
    /\ register = prev.register

\* C39: pending interpreter state never leaks across modes: after every key
\* event, outside normal mode the normal resolver's countBuffer is empty and
\* its pendingOperator is none, and outside the visual modes the visual
\* resolver's countBuffer is empty.
C39_NoPendingAcrossModes ==
    /\ mode # "normal" => (countBuffer = <<>> /\ pendingOperator = "null")
    /\ mode \notin VisualModes => visualCountBuffer = <<>>

C39_Witness ==
    /\ lastEvent = Ev("v")
    /\ prev.mode = "normal"
    /\ prev.countBuffer # <<>>
    /\ prev.pendingOperator = "delete"
    /\ mode = "visual-character"
    /\ countBuffer = <<>>

\* Normal mode with no count and no operator pending.
Idle == mode = "normal" /\ countBuffer = <<>> /\ pendingOperator = "null"

\* The last event was the first press of the operator key in normal mode.
FirstOperatorPress(key, operator) ==
    lastEvent = Ev(key) /\ prev.mode = "normal" /\ prev.pendingOperator # operator

\* The last event was a count digit typed in normal mode with an operator
\* pending (0 counts as a digit once the count buffer is not empty).
DigitAfterOperator ==
    /\ lastEvent.key \in CountKeys
    /\ lastEvent = Ev(lastEvent.key)
    /\ prev.mode = "normal"
    /\ prev.pendingOperator # "null"
    /\ lastEvent.key = "0" => prev.countBuffer # <<>>

\* The cursor row of s with the n columns from the cursor on removed.
RowWithoutNext(s, n) ==
    WithoutCols(s.lines[s.row + 1], s.col, Min(Len(s.lines[s.row + 1]), s.col + n))

\* C40: count digits typed before an operator and digits typed between the
\* operator and its motion accumulate into one decimal count, because the
\* first d or y press keeps countBuffer: 2, d, 3, j deletes with count 23 and
\* 1, d, 1, l with count 11 (not 1 and not 2), and 2, d, d equals d, 2, d.
C40_CountsAccumulate ==
    /\ FirstOperatorPress("d", "delete") => State = [prev EXCEPT !.pendingOperator = "delete"]
    /\ FirstOperatorPress("y", "yank") => State = [prev EXCEPT !.pendingOperator = "yank"]
    /\ DigitAfterOperator =>
          State = [prev EXCEPT !.countBuffer = Append(prev.countBuffer, lastEvent.key)]
    /\ OperatorMotion("delete", "l") =>
          lines[row + 1] = RowWithoutNext(prev, PrevCount)
    /\ Idle =>
          /\ TypeKeys(State, <<"2", "d", "d">>) = TypeKeys(State, <<"d", "2", "d">>)
          /\ TypeKeys(State, <<"1", "d", "1", "l">>).lines
                = [lines EXCEPT ![row + 1] = RowWithoutNext(State, 11)]
          /\ TypeKeys(State, <<"2", "d", "3", "j">>).lines
                = WithoutRows(lines, row, Min(row + 23 - 1, Len(lines) - 1))

C40_Witness ==
    /\ DigitAfterOperator
    /\ prev.pendingOperator = "delete"
    /\ prev.countBuffer = <<"1">>
    /\ countBuffer = <<"1", "1">>
    /\ col = 0
    /\ Len(lines[row + 1]) = 3
    /\ processKeyboardEvent(State, Ev("l")).lines[row + 1] = <<>>

====
